---- MODULE Spec2Model ----
(***************************************************************************)
(* Model of the scenario execution engine of the web automation extension: *)
(* AutomationContentScript (src/popup/popup.js, lines 894-2047).           *)
(*                                                                         *)
(* The content script is single threaded.  Every handler runs atomically   *)
(* up to its next await on a timer or on a message round trip              *)
(* (chrome.runtime.sendMessage, setTimeout); there the coroutine is        *)
(* suspended and any other event (command, key press, timer, page change)  *)
(* may run.  Each executeScenario invocation that passed its guard is a    *)
(* "tick", held in a slot of ticks with the await it is suspended at (pc). *)
(* Awaits on the progress tracker and on the page detector resolve without *)
(* waiting for an event and are part of the step that reaches them.  An   *)
(* await after which the handler only returns, or only reaches the next    *)
(* await, without reading or writing the engine's fields, is part of the   *)
(* suspension that precedes or follows it.                                 *)
(***************************************************************************)
EXTENDS Integers, Sequences, FiniteSets, TLC

\* ------------------------------------------------------------------ bounds
MaxTicks == 3        \* ticks that may pass the executeScenario guard in a run
MaxProcs == 2        \* ticks that may be in flight at the same time
MaxEvents == 3       \* commands, key presses and page events in a run
MaxActions == 2      \* actions in a list given to selectAction
MaxWeight == 2       \* the largest probability of an action, in weight units
MaxSeconds == 5      \* the largest number in a duration string

\* --------------------------------------------------------------- constants
NoSession == 0       \* currentSession === null / currentScenario === null
NoTimer == 0         \* executionTimer === null
SessionId == 1       \* data.sessionId of START_AUTOMATION

PageTypes == {"home", "item", "none"}   \* "none": currentPage is null
ScenarioIds == {1, 2, 3}

\* ------------------------------------------------------------ scenario data
NotIterable == 0 - 1 \* an entryActions value that is truthy and not a list
NoCond == [minTimeOnPage |-> 0, maxTimeOnPage |-> 0, elementExists |-> "",
           elementNotExists |-> "", goalProgress |-> 0]

Act(p, c, i, n, t) ==
    [probability |-> p, conditions |-> c, impact |-> i, microSequence |-> n,
     targetPage |-> t]

\* The scenario of the end-to-end property: one page, one action with
\* probability 1, no conditions, impact {visits: 1}; required visits 1.
Scenario1 ==
    [required |-> 1, hasDuration |-> FALSE,
     pages |-> [home |-> [entryActions |-> 0,
                          nonNavigation |-> << Act(1, NoCond, 1, 2, "none") >>,
                          navigation |-> << >>]]]

\* on item every action has probability 0; the entryActions of home are an
\* object, not a list (the configuration's validation does not look at them).
Scenario2 ==
    [required |-> 1, hasDuration |-> FALSE,
     pages |-> [item |-> [entryActions |-> 0,
                          nonNavigation |-> << Act(0, NoCond, 1, 1, "none") >>,
                          navigation |-> << >>],
                home |-> [entryActions |-> NotIterable,
                          nonNavigation |-> << >>,
                          navigation |-> << >>]]]

\* two weighted actions on home (one navigating to item); on item an entry
\* action and one action, whose goalProgress condition fails until visits is 1.
Scenario3 ==
    [required |-> 2, hasDuration |-> TRUE,
     pages |-> [home |-> [entryActions |-> 0,
                          nonNavigation |-> << Act(1, NoCond, 1, 1, "none") >>,
                          navigation |->
                            << Act(2, [NoCond EXCEPT !.elementExists = "#next"],
                                   0, 1, "item") >>],
                item |-> [entryActions |-> 1,
                          nonNavigation |->
                            << Act(1, [NoCond EXCEPT !.goalProgress = 1],
                                   1, 1, "none") >>,
                          navigation |-> << >>]]]

Scenario(id) ==
    CASE id = 1 -> Scenario1
      [] id = 2 -> Scenario2
      [] OTHER -> Scenario3

\* The elements of the page, by page type: what findElement resolves.
ElementPresent(sel, page) ==
    sel = "#next" /\ page = "home"

\* ------------------------------------------------------------------- state
VARIABLES
    isRunning,        \* this.isRunning
    isPaused,         \* this.isPaused
    currentSession,   \* this.currentSession (NoSession when null)
    currentScenario,  \* this.currentScenario (a ScenarioIds member, NoSession when null/undefined)
    currentPage,      \* this.currentPage?.type ("none" when null)
    executionTimer,   \* this.executionTimer (a timer id, NoTimer when null)
    timers,           \* ids of the setTimeout tick timers that are still pending
    metrics,          \* progress tracker: the accumulated "visits" metric
    goals,            \* progress tracker: the scenario whose goals it was initialised with
    timedOut,         \* progress tracker: session_duration.max has elapsed
    histLen,          \* window.history.length (2 stands for any length > 1)
    ticks,            \* the executeScenario invocations in flight, by slot
    ticksBegun,       \* executeScenario invocations that passed the guard
    ticksDone,        \* executeScenario invocations that passed the guard and returned
    nEvents,          \* commands, key presses and page events so far
    lastOp,           \* "stop" / "timer" when the last step ran stopAutomation / a tick
                      \* timer's callback, else "other"
    stopped,          \* stopAutomation ran and no startAutomation since
    microStarted,     \* a micro-action was started in the last step
    lastImpact,       \* the application of an action's impact in the last step, if any
    lastTick,         \* how the tick that finished in the last step went, if any
    timeOnPage,       \* progress tracker: milliseconds since the arrival on the page
    call              \* a call of selectAction or parseDuration: arguments and result

vars == << isRunning, isPaused, currentSession, currentScenario, currentPage,
           executionTimer, timers, metrics, goals, timedOut, histLen, ticks,
           ticksBegun, ticksDone, nEvents, lastOp, stopped, microStarted,
           lastImpact, lastTick, timeOnPage, call >>

Slots == 1..MaxProcs
NoConfig == << NoSession, "none" >>      \* getPageConfiguration() === null

IdleTick ==
    [pc |-> "idle", cfg |-> NoConfig, act |-> 0, seq |-> "none", idx |-> 0,
     nOk |-> 0, failed |-> {}, fatal |-> FALSE, err |-> "",
     noElig |-> FALSE, noCfg |-> FALSE, stuck |-> FALSE, canBack |-> FALSE,
     completed |-> FALSE, escaped |-> FALSE]

NoImpact == [valid |-> FALSE, len |-> 0, nOk |-> 0, idx |-> 0]
NoTick == [valid |-> FALSE, noElig |-> FALSE, noCfg |-> FALSE, stuck |-> FALSE,
           canBack |-> FALSE, completed |-> FALSE, escaped |-> FALSE,
           fatal |-> FALSE, err |-> ""]

\* The whole state as one record, so that a handler is a function on it.
World ==
    [isRunning |-> isRunning, isPaused |-> isPaused,
     currentSession |-> currentSession, currentScenario |-> currentScenario,
     currentPage |-> currentPage, executionTimer |-> executionTimer,
     timers |-> timers, metrics |-> metrics, goals |-> goals,
     timedOut |-> timedOut, histLen |-> histLen, ticks |-> ticks,
     ticksBegun |-> ticksBegun, ticksDone |-> ticksDone, nEvents |-> nEvents,
     lastOp |-> lastOp, stopped |-> stopped, microStarted |-> microStarted,
     lastImpact |-> lastImpact, lastTick |-> lastTick,
     timeOnPage |-> timeOnPage]

\* The ticks in flight are an unordered collection: the slots are kept in a
\* fixed order of the ticks' positions, idle slots last.
PcRank ==
    [idle |-> 1, complete_log |-> 3, timeout_log |-> 4,
     cfgerr_log |-> 5, noact_log |-> 6, stuck_wait |-> 7, exec_err_log |-> 8,
     act_fail_log |-> 9, act_done_log |-> 10, transition |-> 11,
     micro_err_log |-> 12, act_started_log |-> 13, micro |-> 14]

TickKey(t) ==
    100 * PcRank[t.pc]
    + 30 * t.cfg[1] + 10 * (IF t.cfg[2] = "home" THEN 1 ELSE 0)
    + 3 * t.idx + t.nOk

InSlotOrder(tk) ==
    IF \A i \in Slots \ {1} : tk[i].pc = "idle" THEN tk
    ELSE SortSeq(tk, LAMBDA a, b : TickKey(a) > TickKey(b))

\* Timer ids are opaque numbers: the state keeps them up to renaming, the
\* unreferenced pending timers first and the id in executionTimer after them.
Unreferenced(v) == v.timers \ {v.executionTimer}

RenamedTimer(v) ==
    IF v.executionTimer = NoTimer THEN NoTimer
    ELSE Cardinality(Unreferenced(v)) + 1

RenamedTimers(v) ==
    (1..Cardinality(Unreferenced(v)))
        \cup (IF v.executionTimer \in v.timers THEN {RenamedTimer(v)} ELSE {})

\* F applied to the value of w (w is evaluated once)
Once(F(_), w) == CHOOSE r \in {F(v) : v \in {w}} : TRUE

\* the step's result becomes the next state
Commit(w) ==
    \E v \in {w} :
        /\ isRunning' = v.isRunning
        /\ isPaused' = v.isPaused
        /\ currentSession' = v.currentSession
        /\ currentScenario' = v.currentScenario
        /\ currentPage' = v.currentPage
        /\ executionTimer' = RenamedTimer(v)
        /\ timers' = RenamedTimers(v)
        /\ metrics' = v.metrics
        /\ goals' = v.goals
        /\ timedOut' = v.timedOut
        /\ histLen' = v.histLen
        /\ \E tk \in {v.ticks} : ticks' = InSlotOrder(tk)
        /\ ticksBegun' = v.ticksBegun
        /\ ticksDone' = v.ticksDone
        /\ nEvents' = v.nEvents
        /\ lastOp' = v.lastOp
        /\ stopped' = v.stopped
        /\ microStarted' = v.microStarted
        /\ lastImpact' = v.lastImpact
        /\ lastTick' = v.lastTick
        /\ timeOnPage' = v.timeOnPage
        /\ call' = call

\* --------------------------------------------------------- progress tracker
\* (src/content/modules/progress-tracker.js is not part of the sources; these
\* follow section 4.3 of the specification.)
Required(g) == IF g = NoSession THEN 0 ELSE Scenario(g).required

Initialize(w, g) == [w EXCEPT !.metrics = 0, !.goals = g, !.timedOut = FALSE]

UpdateMetrics(w, delta) == [w EXCEPT !.metrics = @ + delta]

AreGoalsMet(w) == w.metrics >= Required(w.goals)

IsSessionTimedOut(w) ==
    /\ w.goals # NoSession
    /\ Scenario(w.goals).hasDuration
    /\ w.timedOut

GetMetric(w) == w.metrics

\* a combination of the completion ratios: here the accumulated metric
GetOverallProgress(w) == w.metrics

\* (no scenario of the engine's runs sets a time condition, and the engine's
\* runs leave the clock at 0)
GetTimeOnCurrentPage(w) == w.timeOnPage

\* ------------------------------------------------------------ pure helpers
\* getPageConfiguration, lines 1352-1358
GetPageConfiguration(w) ==
    IF w.currentScenario = NoSession \/ w.currentPage = "none"
    THEN NoConfig
    ELSE IF w.currentPage \in DOMAIN Scenario(w.currentScenario).pages
         THEN << w.currentScenario, w.currentPage >>
         ELSE NoConfig

PageConfig(ref) == Scenario(ref[1]).pages[ref[2]]

AllActions(cfg) == cfg.nonNavigation \o cfg.navigation

\* getAvailableActions, lines 1363-1374: the indices (in allActions) kept
GetAvailableActions(cfg) ==
    LET all == AllActions(cfg)
    IN  SelectSeq([i \in 1..Len(all) |-> i], LAMBDA i : all[i].probability > 0)

\* findElement, lines 1316-1323: TRUE iff it resolves
FindElement(sel, w) == ElementPresent(sel, w.currentPage)

\* checkActionConditions without the return of line 1433
CheckActionConditions_NoNotExists(c, w) ==
    IF c.minTimeOnPage # 0 /\ GetTimeOnCurrentPage(w) < c.minTimeOnPage * 1000
    THEN FALSE
    ELSE IF c.maxTimeOnPage # 0 /\ GetTimeOnCurrentPage(w) > c.maxTimeOnPage * 1000
    THEN FALSE
    ELSE IF c.elementExists # "" /\ ~FindElement(c.elementExists, w)
    THEN FALSE
    ELSE IF c.goalProgress # 0 /\ GetMetric(w) < c.goalProgress
    THEN FALSE
    ELSE TRUE

\* checkActionConditions with <= for < in line 1413
CheckActionConditions_StrictMin(c, w) ==
    IF c.minTimeOnPage # 0 /\ GetTimeOnCurrentPage(w) <= c.minTimeOnPage * 1000
    THEN FALSE
    ELSE IF c.maxTimeOnPage # 0 /\ GetTimeOnCurrentPage(w) > c.maxTimeOnPage * 1000
    THEN FALSE
    ELSE IF c.elementExists # "" /\ ~FindElement(c.elementExists, w)
    THEN FALSE
    ELSE IF c.elementNotExists # "" /\ FindElement(c.elementNotExists, w)
    THEN FALSE
    ELSE IF c.goalProgress # 0 /\ GetMetric(w) < c.goalProgress
    THEN FALSE
    ELSE TRUE

\* checkActionConditions, lines 1410-1453: findElement throws when the
\* selector resolves to no element and when it names an unknown global
\* selector, and both are caught (lines 1425, 1434, 1449)
CheckActionConditions(c, w) ==
    IF c.minTimeOnPage # 0 /\ GetTimeOnCurrentPage(w) < c.minTimeOnPage * 1000
    THEN FALSE
    ELSE IF c.maxTimeOnPage # 0 /\ GetTimeOnCurrentPage(w) > c.maxTimeOnPage * 1000
    THEN FALSE
    ELSE IF c.elementExists # "" /\ ~FindElement(c.elementExists, w)
    THEN FALSE
    ELSE IF c.elementNotExists # "" /\ FindElement(c.elementNotExists, w)
    THEN FALSE
    ELSE IF c.goalProgress # 0 /\ GetMetric(w) < c.goalProgress
    THEN FALSE
    ELSE TRUE

RECURSIVE SumWeights(_, _)
SumWeights(all, valid) ==
    IF valid = << >> THEN 0
    ELSE all[Head(valid)].probability + SumWeights(all, Tail(valid))

\* the walk of lines 1397-1404; random = (u / RandomDenominator) * totalWeight,
\* compared after multiplying through by RandomDenominator
RandomDenominator == 2

\* the walk with < for <= in line 1400
RECURSIVE Walk_Strict(_, _, _, _)
Walk_Strict(all, valid, k, rnd) ==
    IF k > Len(valid) THEN valid[1]
    ELSE LET r == rnd - RandomDenominator * all[valid[k]].probability
         IN  IF r < 0 THEN valid[k] ELSE Walk_Strict(all, valid, k + 1, r)

RECURSIVE Walk(_, _, _, _)
Walk(all, valid, k, rnd) ==
    IF k > Len(valid) THEN valid[1]
    ELSE LET r == rnd - RandomDenominator * all[valid[k]].probability
         IN  IF r <= 0 THEN valid[k] ELSE Walk(all, valid, k + 1, r)

\* selectAction falling back to the first candidate when none is valid
SelectAction_FallbackFirst(cfg, available, u, w) ==
    LET all == AllActions(cfg)
        validActions ==
            SelectSeq(available,
                      LAMBDA i : CheckActionConditions(all[i].conditions, w))
        totalWeight == SumWeights(all, validActions)
    IN  IF validActions = << >>
        THEN IF available = << >> THEN 0 ELSE available[1]
        ELSE Walk(all, validActions, 1, u * totalWeight)

\* selectAction, lines 1379-1405: the index selected, 0 for null
SelectAction(cfg, available, u, w) ==
    LET all == AllActions(cfg)
        validActions ==
            SelectSeq(available,
                      LAMBDA i : CheckActionConditions(all[i].conditions, w))
        totalWeight == SumWeights(all, validActions)
    IN  IF validActions = << >> THEN 0
        ELSE Walk(all, validActions, 1, u * totalWeight)

\* shouldAbortOnError, lines 1939-1949
ErrorMessages == {"element not found", "network_error"}
ShouldAbortOnError_Never(msg) == FALSE     \* no message is classified fatal

ShouldAbortOnError(msg) ==
    msg \in {"network_error", "page_crash", "extension_error"}

\* getStatus, lines 1683-1695: the data of the GET_STATUS response (the
\* session's duration is left out, the clock is not modelled)
GetStatus(w) ==
    [isRunning |-> w.isRunning, isPaused |-> w.isPaused,
     currentSession |-> w.currentSession, currentPage |-> w.currentPage,
     progress |-> GetOverallProgress(w)]

\* ------------------------------------------------- handlers, as functions
Min(S) == CHOOSE x \in S : \A y \in S : x <= y

\* setTimeout returns an id that no pending timer has
NewTimer(w) ==
    Min({i \in 1..(MaxTicks + 2) : i \notin w.timers \cup {w.executionTimer}})

\* scheduleNextExecution, lines 1481-1496 (called with a page configuration)
ReturnsEarly(w) == ~w.isRunning \/ w.isPaused          \* lines 1482-1484

ScheduleNextExecution(w) ==
    LET Body(v) == IF ReturnsEarly(v) THEN v
                   ELSE [v EXCEPT !.timers = @ \cup {NewTimer(v)},
                                  !.executionTimer = NewTimer(v)]
    IN  Once(Body, w)

\* stopAutomation without lines 1025-1028: the pending timer is not cleared
StopAutomationBody_NoClear(w) ==
    [w EXCEPT !.isRunning = FALSE, !.isPaused = FALSE,
              !.currentSession = NoSession, !.currentScenario = NoSession,
              !.stopped = TRUE, !.lastOp = "stop"]

\* stopAutomation, lines 1014-1032: everything before the session_ended log
StopAutomationBody(w) ==
    [w EXCEPT !.isRunning = FALSE, !.isPaused = FALSE,
              !.currentSession = NoSession, !.currentScenario = NoSession,
              !.timers = @ \ {w.executionTimer}, !.executionTimer = NoTimer,
              !.stopped = TRUE, !.lastOp = "stop"]

\* pauseAutomation, lines 1049-1059: everything before the session_paused log
PauseAutomationBody(w) ==
    [w EXCEPT !.isPaused = TRUE,
              !.timers = @ \ {w.executionTimer}, !.executionTimer = NoTimer,
              !.lastOp = "other"]

\* the executeScenario invocation of slot p returns (or rejects)
EndTick(w, p) ==
    LET Body(v) ==
            LET t == v.ticks[p]
            IN  [v EXCEPT !.ticks[p] = IdleTick,
                          !.ticksDone = @ + 1,
                          !.lastTick = [valid |-> TRUE, noElig |-> t.noElig,
                                        noCfg |-> t.noCfg, stuck |-> t.stuck,
                                        canBack |-> t.canBack,
                                        completed |-> t.completed,
                                        escaped |-> t.escaped,
                                        fatal |-> t.fatal, err |-> t.err]]
    IN  Once(Body, w)

\* the awaits at which the locals of executePageActions, executeSelectedAction
\* and executeActionSequence are out of scope or no longer read
PastSequence == {"complete_log", "timeout_log", "cfgerr_log",
                 "noact_log", "stuck_wait", "exec_err_log", "act_done_log",
                 "transition"}

\* the invocation of slot p is suspended at the await pc
Suspend(w, p, pc) ==
    IF pc \in PastSequence
    THEN [w EXCEPT !.ticks[p].pc = pc, !.ticks[p].cfg = NoConfig,
                   !.ticks[p].act = 0, !.ticks[p].seq = "none",
                   !.ticks[p].idx = 0, !.ticks[p].nOk = 0,
                   !.ticks[p].failed = {},
                   !.ticks[p].err = IF pc = "exec_err_log" THEN @ ELSE ""]
    ELSE [w EXCEPT !.ticks[p].pc = pc]

\* the action a tick executes, and the length of the sequence it is in
TickAction(t) == AllActions(PageConfig(t.cfg))[t.act]

SequenceLength(t) ==
    IF t.seq = "entry" THEN PageConfig(t.cfg).entryActions
    ELSE TickAction(t).microSequence

\* completeSession / timeoutSession, lines 1893-1917, up to their log await
CompleteSession(w, p) == Suspend(w, p, "complete_log")
TimeoutSession(w, p) == Suspend(w, p, "timeout_log")

\* handleStuckScenario, lines 1969-1979, up to its first await
HandleStuckScenario(w0, p) ==
    LET Body(w) ==
            LET w1 == [w EXCEPT !.ticks[p].stuck = TRUE,
                                !.ticks[p].canBack = (w.histLen > 1)]
            IN  IF w.histLen > 1
                THEN Suspend(w1, p, "stuck_wait")          \* history.back(); wait(2000)
                ELSE CompleteSession(w1, p)
    IN  Once(Body, w0)

\* executeSelectedAction without lines 1195-1197: the impact is not applied
AfterMicroSequence_NoImpact(w0, p) ==
    LET Body(w) ==
            LET a == AllActions(PageConfig(w.ticks[p].cfg))[w.ticks[p].act]
            IN  IF a.targetPage # "none" /\ a.targetPage # w.currentPage
                THEN Suspend(w, p, "transition")
                ELSE Suspend(w, p, "act_done_log")
    IN  Once(Body, w0)

\* executeSelectedAction, lines 1194-1209: after the micro sequence
AfterMicroSequence(w0, p) ==
    LET Body(w) ==
            LET t == w.ticks[p]
                a == TickAction(t)
                w1 == IF a.impact # 0
                      THEN [UpdateMetrics(w, a.impact) EXCEPT
                              !.lastImpact = [valid |-> TRUE, len |-> a.microSequence,
                                              nOk |-> t.nOk, idx |-> t.idx]]
                      ELSE w
            IN  IF a.targetPage # "none" /\ a.targetPage # w1.currentPage
                THEN Suspend(w1, p, "transition")
                ELSE Suspend(w1, p, "act_done_log")
    IN  Once(Body, w0)

\* executePageActions, lines 1145-1162: after the entry actions
AfterEntryActions(w0, p, u) ==
    LET Body(w) ==
            LET t == w.ticks[p]
                cfg == PageConfig(t.cfg)
                availableActions == GetAvailableActions(cfg)
                selectedAction == SelectAction(cfg, availableActions, u, w)
            IN  IF availableActions = << >>
                THEN Suspend([w EXCEPT !.ticks[p].noElig = TRUE,
                                       !.ticks[p].canBack = (w.histLen > 1)], p,
                             "noact_log")
                ELSE IF selectedAction # 0
                THEN Suspend([w EXCEPT !.ticks[p].act = selectedAction], p,
                             "act_started_log")
                ELSE EndTick(ScheduleNextExecution(
                               [w EXCEPT !.ticks[p].noElig = TRUE,
                                         !.ticks[p].canBack = (w.histLen > 1)]), p)
    IN  Once(Body, w0)

\* executeActionSequence without the test of lines 1223-1225
SequenceLoop_NoFlagCheck(w0, p, u) ==
    LET Body(w) ==
            LET t == w.ticks[p]
            IN  IF t.idx < SequenceLength(t)
                THEN Suspend([w EXCEPT !.microStarted = TRUE], p, "micro")
                ELSE IF t.seq = "entry"
                THEN AfterEntryActions(w, p, u)
                ELSE AfterMicroSequence(w, p)
    IN  Once(Body, w0)

\* executeActionSequence, lines 1221-1241: the head of the loop, with idx
\* micro-actions of the sequence consumed
SequenceLoop(w0, p, u) ==
    LET Body(w) ==
            LET t == w.ticks[p]
                break == ~w.isRunning \/ w.isPaused
            IN  IF t.idx < SequenceLength(t) /\ ~break
                THEN Suspend([w EXCEPT !.microStarted = TRUE], p, "micro")
                ELSE IF t.seq = "entry"
                THEN AfterEntryActions(w, p, u)
                ELSE AfterMicroSequence(w, p)
    IN  Once(Body, w0)

StartSequence(w, p, seq, u) ==
    SequenceLoop([w EXCEPT !.ticks[p].seq = seq, !.ticks[p].idx = 0,
                           !.ticks[p].nOk = 0,
                           !.ticks[p].failed = {}], p, u)

\* executePageActions, lines 1138-1143 and 1164-1167: for...of over a value
\* that is not iterable throws a TypeError, which is thrown on to the catch of
\* executeScenario (line 1129) and to handleExecutionError
ExecutePageActions(w, p, u) ==
    IF PageConfig(w.ticks[p].cfg).entryActions = NotIterable
    THEN Suspend([w EXCEPT !.ticks[p].err = "sequence is not iterable"], p,
                 "exec_err_log")
    ELSE IF PageConfig(w.ticks[p].cfg).entryActions > 0
    THEN StartSequence(w, p, "entry", u)
    ELSE AfterEntryActions(w, p, u)

FreeSlot(w) == Min({p \in Slots : w.ticks[p].pc = "idle"})

\* the guard of executeScenario without its isPaused test
PassesGuard_IgnoresPause(w) == w.isRunning

\* the guard of executeScenario, line 1099
PassesGuard(w) == w.isRunning /\ ~w.isPaused

HasCapacity(w) ==
    /\ w.ticksBegun < MaxTicks
    /\ \E p \in Slots : w.ticks[p].pc = "idle"

\* executeScenario with the checks of lines 1105 and 1112 in the other order
ExecuteScenario_TimeoutFirst(w0, u) ==
    LET Body(w) ==
            IF ~PassesGuard(w) THEN w
            ELSE LET p == FreeSlot(w)
                     w1 == [w EXCEPT !.ticksBegun = @ + 1]
                     ref == GetPageConfiguration(w)
                 IN  IF IsSessionTimedOut(w1) THEN TimeoutSession(w1, p)
                     ELSE IF AreGoalsMet(w1) THEN CompleteSession(w1, p)
                     ELSE IF ref = NoConfig
                     THEN Suspend([w1 EXCEPT !.ticks[p].noCfg = TRUE,
                                             !.ticks[p].canBack = (w.histLen > 1)],
                                  p, "cfgerr_log")
                     ELSE ExecutePageActions([w1 EXCEPT !.ticks[p].cfg = ref], p, u)
    IN  Once(Body, w0)

\* executeScenario, lines 1098-1133, up to its first await
ExecuteScenario(w0, u) ==
    LET Body(w) ==
            IF ~PassesGuard(w) THEN w
            ELSE LET p == FreeSlot(w)
                     w1 == [w EXCEPT !.ticksBegun = @ + 1]
                     ref == GetPageConfiguration(w)
                 IN  IF AreGoalsMet(w1) THEN CompleteSession(w1, p)
                     ELSE IF IsSessionTimedOut(w1) THEN TimeoutSession(w1, p)
                     ELSE IF ref = NoConfig
                     THEN Suspend([w1 EXCEPT !.ticks[p].noCfg = TRUE,
                                             !.ticks[p].canBack = (w.histLen > 1)],
                                  p, "cfgerr_log")
                     ELSE ExecutePageActions([w1 EXCEPT !.ticks[p].cfg = ref], p, u)
    IN  Once(Body, w0)

\* a handler that may call executeScenario can run when the call finds room
CanRun(w) == PassesGuard(w) => HasCapacity(w)

\* ----------------------------------------------------------------- initial
\* the engine after its construction, lines 895-912
EngineInit ==
    /\ isRunning = FALSE
    /\ isPaused = FALSE
    /\ currentSession = NoSession
    /\ currentScenario = NoSession
    /\ executionTimer = NoTimer
    /\ timers = {}
    /\ metrics = 0
    /\ goals = NoSession
    /\ timedOut = FALSE
    /\ histLen = 1                 \* a new tab; a navigation adds an entry
    /\ ticks = [p \in Slots |-> IdleTick]
    /\ ticksBegun = 0
    /\ ticksDone = 0
    /\ nEvents = 0
    /\ lastOp = "other"
    /\ stopped = FALSE
    /\ microStarted = FALSE
    /\ lastImpact = NoImpact
    /\ lastTick = NoTick

NoCall == [op |-> "none"]

Init ==
    /\ EngineInit
    /\ currentPage \in PageTypes
    /\ timeOnPage = 0
    /\ call = NoCall

Draws == 0..(RandomDenominator - 1)      \* Math.random(), in 1/RandomDenominator

\* Math.random() is called by selectAction only: a call of executeScenario
\* draws when it gets to selectAction before its first await, and a resumed
\* sequence draws when it is the entry sequence
DrawsOfCall(w) ==
    IF /\ PassesGuard(w) /\ ~AreGoalsMet(w) /\ ~IsSessionTimedOut(w)
       /\ GetPageConfiguration(w) # NoConfig
       /\ PageConfig(GetPageConfiguration(w)).entryActions = 0
    THEN Draws ELSE {0}

DrawsOfStep(t) ==
    IF t.seq = "entry" THEN Draws ELSE {0}

\* what every step starts from: nothing observed yet in this step
Fresh == [World EXCEPT !.lastOp = "other", !.microStarted = FALSE,
                       !.lastImpact = NoImpact, !.lastTick = NoTick]
Event(w, op) == [w EXCEPT !.nEvents = @ + 1]
Resumed == Fresh

\* ---------------------------------------------------------------- commands
\* startAutomation, lines 984-1003, with a scenario of the configuration
StartAutomation(scn, u) ==
    /\ nEvents < MaxEvents
    /\ LET w0 == Event(Fresh, "start")
           w1 == [w0 EXCEPT !.currentSession = SessionId,
                            !.currentScenario = scn,
                            !.isRunning = TRUE, !.isPaused = FALSE,
                            !.stopped = FALSE]
           w2 == Initialize(w1, scn)
       IN  /\ CanRun(w2)
           /\ u \in DrawsOfCall(w2)
           /\ Commit(ExecuteScenario(w2, u))

\* startAutomation, lines 984-995 and 1004-1008: data.scenario is undefined
\* (the scenario id is not in the configuration), so reading its goals throws
StartAutomationFails ==
    /\ nEvents < MaxEvents
    /\ LET w0 == Event(Fresh, "start")
       IN  Commit([w0 EXCEPT !.currentSession = SessionId,
                             !.currentScenario = NoSession,
                             !.isRunning = TRUE, !.isPaused = FALSE,
                             !.stopped = FALSE])

\* stopAutomation, lines 1014-1044 (STOP_AUTOMATION, Ctrl+Shift+S, overlay)
StopAutomation ==
    /\ nEvents < MaxEvents
    /\ Commit(StopAutomationBody(Event(Fresh, "stop")))

\* pauseAutomation, lines 1049-1070
PauseAutomation ==
    /\ nEvents < MaxEvents
    /\ Commit(PauseAutomationBody(Event(Fresh, "pause")))

ResumeAutomationBody(w, u) ==
    ExecuteScenario([w EXCEPT !.isPaused = FALSE, !.lastOp = "other"], u)

\* resumeAutomation, lines 1075-1093
ResumeAutomation(u) ==
    /\ nEvents < MaxEvents
    /\ LET w0 == Event(Fresh, "resume")
       IN  /\ CanRun([w0 EXCEPT !.isPaused = FALSE])
           /\ u \in DrawsOfCall([w0 EXCEPT !.isPaused = FALSE])
           /\ Commit(ResumeAutomationBody(w0, u))

\* the Ctrl+Shift+P handler, lines 1528-1537 (and the overlay's pause button)
KeyboardToggle(u) ==
    /\ nEvents < MaxEvents
    /\ LET w0 == Event(Fresh, "key")
       IN  IF isPaused
           THEN /\ CanRun([w0 EXCEPT !.isPaused = FALSE])
                /\ u \in DrawsOfCall([w0 EXCEPT !.isPaused = FALSE])
                /\ Commit(ResumeAutomationBody(w0, u))
           ELSE /\ u = 0
                /\ Commit(PauseAutomationBody(w0))

\* the setTimeout callback of scheduleNextExecution, lines 1493-1495
TimerFires(id, u) ==
    /\ id \in timers
    /\ LET w0 == [Fresh EXCEPT !.timers = @ \ {id}, !.lastOp = "timer"]
       IN  /\ CanRun(w0)
           /\ u \in DrawsOfCall(w0)
           /\ Commit(ExecuteScenario(w0, u))

\* the page changes and the observer of setupPageChangeDetection, lines
\* 1501-1522, detects the new page
PageChange(page) ==
    /\ nEvents < MaxEvents
    /\ page # currentPage
    /\ Commit([Event(Fresh, "page") EXCEPT !.currentPage = page,
                                            !.histLen = 2])   \* one more entry

\* the session's maximal duration elapses
DurationElapses ==
    /\ nEvents < MaxEvents
    /\ goals # NoSession
    /\ Scenario(goals).hasDuration
    /\ ~timedOut
    /\ Commit([Event(Fresh, "clock") EXCEPT !.timedOut = TRUE])

\* -------------------------------------- a suspended tick is resumed (awaits)
\* executeMicroAction returns or throws, lines 1227-1239
MicroActionReturns(p, outcome, u) ==
    /\ ticks[p].pc = "micro"
    /\ u \in (IF outcome = "ok" THEN DrawsOfStep(ticks[p]) ELSE {0})
    /\ LET w == Resumed
           t == ticks[p]
       IN  IF outcome = "ok"
           THEN Commit(SequenceLoop([w EXCEPT !.ticks[p].idx = @ + 1,
                                              !.ticks[p].nOk = @ + 1], p, u))
           ELSE IF ShouldAbortOnError(outcome)
           THEN \* throw: caught at 1211 (an action) or at 1129 (entry actions)
                Commit(Suspend([w EXCEPT !.ticks[p].fatal = TRUE,
                                         !.ticks[p].failed = @ \cup {outcome},
                                         !.ticks[p].err = outcome], p,
                               IF t.seq = "micro" THEN "act_fail_log"
                               ELSE "exec_err_log"))
           ELSE Commit(Suspend([w EXCEPT !.ticks[p].failed = @ \cup {outcome},
                                         !.ticks[p].err = outcome], p,
                               "micro_err_log"))

\* logError('micro_action_failed') returns, line 1238: the loop goes on
MicroErrorLogged(p, u) ==
    /\ ticks[p].pc = "micro_err_log"
    /\ u \in DrawsOfStep(ticks[p])
    /\ Commit(SequenceLoop([Resumed EXCEPT !.ticks[p].idx = @ + 1,
                                           !.ticks[p].err = ""], p, u))

\* logAction('action_started') returns, lines 1178-1192
ActionStartedLogged(p) ==
    /\ ticks[p].pc = "act_started_log"
    /\ LET w == Resumed
           a == TickAction(ticks[p])
       IN  IF ~CheckActionConditions(a.conditions, w)
           THEN Commit(EndTick(ScheduleNextExecution(w), p))
           ELSE IF a.microSequence > 0
           THEN Commit(StartSequence(w, p, "micro", 0))    \* no draw in it
           ELSE Commit(AfterMicroSequence(
                         [w EXCEPT !.ticks[p].seq = "micro"], p))

\* handlePageTransition returns, lines 1458-1476: the target page was
\* detected at a poll, or the ten seconds are over
PageTransitionEnds(p) ==
    /\ ticks[p].pc = "transition"
    /\ Commit(Suspend(Resumed, p, "act_done_log"))

\* logAction('action_completed') returns, lines 1205-1209, then line 1162
ActionCompletedLogged(p) ==
    /\ ticks[p].pc = "act_done_log"
    /\ Commit(EndTick(ScheduleNextExecution(Resumed), p))

\* stopAutomation called inside a tick, lines 1014-1044: nothing runs after
\* its session_ended log but the returns, so the invocation ends with it
StopInTick(w, p) == EndTick(StopAutomationBody(w), p)

\* handleExecutionError after its execution_error log, lines 1927-1933
HandleExecutionError(w, p) ==
    IF ShouldAbortOnError(w.ticks[p].err)
    THEN StopInTick(w, p)
    ELSE IF ~ReturnsEarly(w) /\ GetPageConfiguration(w) = NoConfig
    THEN \* pageConfig.stayDuration of null: the TypeError escapes
         EndTick([w EXCEPT !.ticks[p].escaped = TRUE], p)
    ELSE EndTick(ScheduleNextExecution(w), p)

\* logError('action_execution_failed') returns, lines 1213-1214; the error is
\* thrown on (1166, 1131) to handleExecutionError, whose log follows at once:
\* the two logs in a row are one suspension
ActionFailureLogged(p) ==
    /\ ticks[p].pc = "act_fail_log"
    /\ Commit(HandleExecutionError(Resumed, p))

\* logError('execution_error') returns, lines 1925-1933 (an entry action threw)
ExecutionErrorLogged(p) ==
    /\ ticks[p].pc = "exec_err_log"
    /\ Commit(HandleExecutionError(Resumed, p))

\* logAction('session_completed') returns, lines 1896-1902
CompletionLogged(p) ==
    /\ ticks[p].pc = "complete_log"
    /\ Commit(StopInTick([Resumed EXCEPT !.ticks[p].completed = TRUE], p))

\* logAction('session_timeout') returns, lines 1911-1916
TimeoutLogged(p) ==
    /\ ticks[p].pc = "timeout_log"
    /\ Commit(StopInTick(Resumed, p))

\* logAction('no_actions_available') returns, lines 1957-1963
NoActionsLogged(p) ==
    /\ ticks[p].pc = "noact_log"
    /\ Commit(HandleStuckScenario(Resumed, p))

\* logError('page_config_error') returns, lines 1987-1993
PageConfigErrorLogged(p) ==
    /\ ticks[p].pc = "cfgerr_log"
    /\ Commit(HandleStuckScenario(Resumed, p))

\* wait(2000) after history.back() returns, lines 1973-1974: the page the
\* browser went back to is detected
StuckWaitReturns(p, page) ==
    /\ ticks[p].pc = "stuck_wait"
    /\ Commit(EndTick([Resumed EXCEPT !.currentPage = page], p))

Outcomes == {"ok"} \cup ErrorMessages

Next ==
    \/ \E scn \in ScenarioIds, u \in Draws : StartAutomation(scn, u)
    \/ StartAutomationFails
    \/ StopAutomation
    \/ PauseAutomation
    \/ \E u \in Draws : ResumeAutomation(u)
    \/ \E u \in Draws : KeyboardToggle(u)
    \/ \E id \in timers, u \in Draws : TimerFires(id, u)
    \/ \E page \in PageTypes : PageChange(page)
    \/ DurationElapses
    \/ \E p \in Slots, o \in Outcomes, u \in Draws : MicroActionReturns(p, o, u)
    \/ \E p \in Slots, u \in Draws : MicroErrorLogged(p, u)
    \/ \E p \in Slots : ActionStartedLogged(p)
    \/ \E p \in Slots : PageTransitionEnds(p)
    \/ \E p \in Slots : ActionCompletedLogged(p)
    \/ \E p \in Slots : ActionFailureLogged(p)
    \/ \E p \in Slots : ExecutionErrorLogged(p)
    \/ \E p \in Slots : CompletionLogged(p)
    \/ \E p \in Slots : TimeoutLogged(p)
    \/ \E p \in Slots : NoActionsLogged(p)
    \/ \E p \in Slots : PageConfigErrorLogged(p)
    \/ \E p \in Slots, page \in PageTypes : StuckWaitReturns(p, page)

Spec == Init /\ [][Next]_vars

\* ------------------------------------------------ selectAction on its own
engineVars == << isRunning, isPaused, currentSession, currentScenario,
                 currentPage, executionTimer, timers, metrics, goals, timedOut,
                 histLen, ticks, ticksBegun, ticksDone, nEvents, lastOp,
                 stopped, microStarted, lastImpact, lastTick, timeOnPage >>

NotCalled == 0 - 1   \* the call has not returned yet

\* the conditions of the candidate actions: none, an element that is on the
\* home page only, a global selector (@name) that is not defined, so that the
\* element finder's processSelector throws, and time bounds of 1
CondChoices ==
    {NoCond,
     [NoCond EXCEPT !.elementExists = "#next"],
     [NoCond EXCEPT !.elementExists = "@ghost"],
     [NoCond EXCEPT !.elementNotExists = "#next"],
     [NoCond EXCEPT !.minTimeOnPage = 1],
     [NoCond EXCEPT !.maxTimeOnPage = 1]}

CandidateActions ==
    {Act(p, c, 0, 0, "none") : p \in 1..MaxWeight, c \in CondChoices}

ActionLists == UNION {[1..n -> CandidateActions] : n \in 0..MaxActions}

Times == {1, 1000, 1001}

InitSelect ==
    /\ EngineInit
    /\ currentPage \in {"home", "item"}
    /\ timeOnPage \in Times
    /\ call \in [op : {"selectAction"}, actions : ActionLists, u : Draws,
                 result : {NotCalled}]

\* the page configuration whose actions are the list of the call
CallConfig ==
    [entryActions |-> 0, nonNavigation |-> call.actions, navigation |-> << >>]

\* selectAction(getAvailableActions(pageConfig)), lines 1152-1155
CallSelectAction ==
    /\ call.op = "selectAction"
    /\ call.result = NotCalled
    /\ call' = [call EXCEPT !.result =
                   SelectAction(CallConfig, GetAvailableActions(CallConfig),
                                call.u, World)]
    /\ UNCHANGED engineVars

NextSelect == CallSelectAction

SpecSelect == InitSelect /\ [][NextSelect]_vars

\* ------------------------------------------------ parseDuration on its own
\* (ActionExecutor, lines 2105-2132).  A string is a sequence of characters; a
\* duration is kept in 1/RandomDenominator milliseconds.
DigitChars == << "0", "1", "2", "3", "4", "5", "6", "7", "8", "9" >>

IsDigit(ch) == \E d \in 1..10 : DigitChars[d] = ch

DigitValue(ch) == (CHOOSE d \in 1..10 : DigitChars[d] = ch) - 1

\* parseFloat of a string that begins with a digit and has no point: the
\* number its leading digits write
RECURSIVE ParseDigits(_, _)
ParseDigits(str, acc) ==
    IF str = << >> \/ ~IsDigit(Head(str)) THEN acc
    ELSE ParseDigits(Tail(str), 10 * acc + DigitValue(Head(str)))

ParseFloat(str) == ParseDigits(str, 0)

\* String.prototype.includes
Includes(str, sub) ==
    \E i \in 1..(Len(str) - Len(sub) + 1) :
        SubSeq(str, i, i + Len(sub) - 1) = sub

\* String.prototype.split on a character
RECURSIVE Split(_, _)
Split(str, ch) ==
    IF ~Includes(str, << ch >>) THEN << str >>
    ELSE LET i == CHOOSE k \in 1..Len(str) :
                    str[k] = ch /\ \A j \in 1..(k - 1) : str[j] # ch
         IN  << SubSeq(str, 1, i - 1) >> \o Split(SubSeq(str, i + 1, Len(str)), ch)

\* parseTimeValue, lines 2121-2132: milliseconds
ParseTimeValue(timeStr) ==
    LET value == ParseFloat(timeStr)
    IN  IF Includes(timeStr, << "m", "s" >>) THEN value
        ELSE IF Includes(timeStr, << "s" >>) THEN value * 1000
        ELSE value

\* parseDuration, lines 2105-2116, with Math.random() = u / RandomDenominator
ParseDuration(durationStr, u) ==
    IF Includes(durationStr, << "-" >>)
    THEN LET parts == Split(durationStr, "-")
             min == ParseTimeValue(parts[1])
             max == ParseTimeValue(parts[2])
         IN  u * (max - min) + RandomDenominator * min
    ELSE RandomDenominator * ParseTimeValue(durationStr)

\* the duration strings of the calls: the decimal digits of a and b in one
\* of the forms the comment of parseDuration names
RECURSIVE Decimal(_)
Decimal(n) ==
    IF n < 10 THEN << DigitChars[n + 1] >>
    ELSE Decimal(n \div 10) \o << DigitChars[(n % 10) + 1] >>

RangeForms == {"a-bs", "as-bs", "a-bms"}
SingleForms == {"as", "ams"}

DurationString(form, a, b) ==
    CASE form = "a-bs" -> Decimal(a) \o << "-" >> \o Decimal(b) \o << "s" >>
      [] form = "as-bs" ->
            Decimal(a) \o << "s", "-" >> \o Decimal(b) \o << "s" >>
      [] form = "a-bms" ->
            Decimal(a) \o << "-" >> \o Decimal(b) \o << "m", "s" >>
      [] form = "as" -> Decimal(a) \o << "s" >>
      [] OTHER -> Decimal(a) \o << "m", "s" >>

DurationCalls ==
    {[op |-> "parseDuration", form |-> f, a |-> a, b |-> b, u |-> u,
      result |-> NotCalled] :
        f \in RangeForms, a \in 0..MaxSeconds, b \in 0..MaxSeconds, u \in Draws}
    \cup
    {[op |-> "parseDuration", form |-> f, a |-> a, b |-> a, u |-> 0,
      result |-> NotCalled] : f \in SingleForms, a \in 0..MaxSeconds}

InitDuration ==
    /\ EngineInit
    /\ currentPage = "none"
    /\ timeOnPage = 0
    /\ call \in {c \in DurationCalls : c.a <= c.b}

CallParseDuration ==
    /\ call.op = "parseDuration"
    /\ call.result = NotCalled
    /\ call' = [call EXCEPT !.result =
                   ParseDuration(DurationString(call.form, call.a, call.b),
                                 call.u)]
    /\ UNCHANGED engineVars

NextDuration == CallParseDuration

SpecDuration == InitDuration /\ [][NextDuration]_vars

\* ------------------------------------------- ActionExecutor.wait on its own
\* A waiting time is kept in 1/WaitUnit milliseconds, so that the sampling
\* (1/RandomDenominator) and the variation (1/10 of a draw) stay integers.
WaitUnit == 10 * RandomDenominator * RandomDenominator

Max(a, b) == IF a >= b THEN a ELSE b

\* the number or the string given to wait
DurationOf(c) ==
    IF c.kind = "number" THEN RandomDenominator * c.a
    ELSE ParseDuration(DurationString(c.form, c.a, c.b), c.u)

\* lines 2086-2090: waitTime + (Math.random() - 0.5) * (waitTime * 0.2), with
\* Math.random() = u2 / RandomDenominator and waitTime in 1/RandomDenominator
Varied(waitTime, u2) ==
    10 * RandomDenominator * waitTime + (2 * u2 - RandomDenominator) * waitTime

\* wait with the clamp of line 2099 applied before the doubling of line 2094
Wait_ClampThenDouble(c) ==
    LET waitTime == DurationOf(c)
        varied == IF c.randomDelay THEN Varied(waitTime, c.u2)
                  ELSE 10 * RandomDenominator * waitTime
        clamped == Max(100 * WaitUnit, varied)
    IN  IF c.slowMode THEN 2 * clamped ELSE clamped

\* wait, lines 2077-2100: the delay given to setTimeout
Wait(c) ==
    LET waitTime == DurationOf(c)
        varied == IF c.randomDelay THEN Varied(waitTime, c.u2)
                  ELSE 10 * RandomDenominator * waitTime
        slowed == IF c.slowMode THEN 2 * varied ELSE varied
    IN  Max(100 * WaitUnit, slowed)

\* the calls: a number of milliseconds (a multiple of 20) or a duration
\* string, the two draws and the two settings
WaitCalls ==
    {[op |-> "wait", kind |-> "number", form |-> "none", a |-> 20 * n, b |-> 0,
      u |-> 0, u2 |-> u2, slowMode |-> sm, randomDelay |-> rd,
      result |-> NotCalled] :
        n \in 0..MaxSeconds, u2 \in Draws, sm \in BOOLEAN, rd \in BOOLEAN}
    \cup
    {[op |-> "wait", kind |-> "string", form |-> d.form, a |-> d.a, b |-> d.b,
      u |-> d.u, u2 |-> u2, slowMode |-> sm, randomDelay |-> rd,
      result |-> NotCalled] :
        d \in {c \in DurationCalls : c.a <= c.b}, u2 \in Draws,
        sm \in BOOLEAN, rd \in BOOLEAN}

InitWait ==
    /\ EngineInit
    /\ currentPage = "none"
    /\ timeOnPage = 0
    /\ call \in {c \in WaitCalls : c.randomDelay \/ c.u2 = 0}

CallWait ==
    /\ call.op = "wait"
    /\ call.result = NotCalled
    /\ call' = [call EXCEPT !.result = Wait(call)]
    /\ UNCHANGED engineVars

NextWait == CallWait

SpecWait == InitWait /\ [][NextWait]_vars

\* ------------------------------------------------------ the element finder
\* src/content/modules/element-finder.js.  A selector is a sequence of
\* tokens, the document a sequence of elements in document order, and an
\* element reference the index of the element in the document.
MaxElements == 2

NoEl == 0             \* null
Detached == 0 - 1     \* a node that is no longer in the document
VirtualEl == 0 - 2    \* the plain object selectBrowserBack returns
Thrown == 0 - 3       \* the call threw

Quote == "\""

\* [id="b"]
AttrSel == << "[", "id", "=", Quote, "b", Quote, "]" >>

\* what globalSelectors.global[name] gives for a name every object inherits
\* from Object.prototype: a function, not a string
InheritedFunction == << "function Object()" >>

\* the selectors of the calls, among them text:"h", text:"H",
\* text:"h"[id="b"], [id="b"]position(200,0) and position(200,0)
FinderSelectors ==
    {<< "#a" >>, << "#b" >>, << "#a", ",", "#b" >>, << "#b", ",", "#a" >>,
     << "text", ":", Quote, "h", Quote >>, << "text", ":", Quote, "H", Quote >>,
     << "text", ":", Quote, "h", Quote >> \o AttrSel,
     AttrSel, AttrSel \o << "position(", "200", ",", "0", ")" >>,
     << "position(", "200", ",", "0", ")" >>,
     << "@", "known" >>, << "@", "ghost" >>, << "@", "constructor" >>,
     << "current" >>, << "browser_back" >>}

\* the documents: up to MaxElements elements <div id=.>text</div> or
\* <text id="b">i</text>
Documents ==
    LET ElementKinds ==
            {[id |-> i, tag |-> "div", text |-> t] :
                i \in {"a", "b"},
                t \in {<< "h" >>, << "H" >>, << "h", "i" >>, << " ", "h" >>}}
            \cup {[id |-> "b", tag |-> "text", text |-> << "i" >>]}
    IN  UNION {[1..n -> ElementKinds] : n \in 0..MaxElements}

\* String.prototype.toLowerCase
ToLowerCase(str) == [i \in 1..Len(str) |-> IF str[i] = "H" THEN "h" ELSE str[i]]

\* String.prototype.trim
RECURSIVE Trim(_)
Trim(str) ==
    IF str = << >> THEN str
    ELSE IF Head(str) = " " THEN Trim(Tail(str))
    ELSE IF str[Len(str)] = " " THEN Trim(SubSeq(str, 1, Len(str) - 1))
    ELSE str

\* the element matches the compound selector #a, #b, text or [id="b"]
MatchesCompound(el, s) ==
    \/ s = << "#a" >> /\ el.id = "a"
    \/ s = << "#b" >> /\ el.id = "b"
    \/ s = << "text" >> /\ el.tag = "text"
    \/ s = AttrSel /\ el.id = "b"

\* what document.querySelectorAll accepts: a list of compound selectors;
\* anything else is a SyntaxError
IsSelectorList(sel) ==
    LET parts == Split(sel, ",")
    IN  \A k \in 1..Len(parts) :
            Trim(parts[k]) \in {<< "#a" >>, << "#b" >>, << "text" >>, AttrSel}

\* document.querySelectorAll: the matching elements in document order
QuerySelectorAll(sel, dom) ==
    LET parts == Split(sel, ",")
    IN  SelectSeq([i \in 1..Len(dom) |-> i],
                  LAMBDA i : \E k \in 1..Len(parts) :
                                MatchesCompound(dom[i], Trim(parts[k])))

\* document.querySelector: the first of them, null, or Thrown
QuerySelector(sel, dom) ==
    IF ~IsSelectorList(sel) THEN Thrown
    ELSE LET elements == QuerySelectorAll(sel, dom)
         IN  IF elements = << >> THEN NoEl ELSE elements[1]

\* handleSpecialSelectors, lines 136-171, for the modifiers first, last and
\* those the switch leaves to its default
HandleSpecialSelectors(sel, dom) ==
    LET parts == Split(sel, ":")
        baseSelector == parts[1]
        modifier == parts[2]
        elements == QuerySelectorAll(baseSelector, dom)
    IN  IF ~IsSelectorList(baseSelector) THEN Thrown
        ELSE IF elements = << >> THEN NoEl
        ELSE IF modifier = << "last" >> THEN elements[Len(elements)]
        ELSE elements[1]

\* findByDirectSelector, lines 117-131, with selectCurrent and
\* selectBrowserBack
FindByDirectSelector(sel, dom, current) ==
    IF sel = InheritedFunction THEN Thrown
    ELSE IF sel = << "current" >> THEN current
    ELSE IF sel = << "browser_back" >> THEN VirtualEl
    ELSE IF Includes(sel, << ":" >>) THEN HandleSpecialSelectors(sel, dom)
    ELSE QuerySelector(sel, dom)

\* findByFallbackSelectors, lines 177-191: what document.querySelector gives
\* for the first sub-selector for which it does not give null
FindByFallbackSelectors(sel, dom) ==
    IF sel = InheritedFunction THEN Thrown
    ELSE IF ~Includes(sel, << "," >>) THEN NoEl
    ELSE LET selectors == Split(sel, ",")
             ends == {k \in 1..Len(selectors) :
                         QuerySelector(Trim(selectors[k]), dom) # NoEl}
         IN  IF ends = {} THEN NoEl
             ELSE QuerySelector(Trim(selectors[Min(ends)]), dom)

\* the content of the first match of /text:"([^"]+)"/, << >> for no match
TextMatch(sel) ==
    LET starts == {i \in 1..(Len(sel) - 4) :
                      /\ SubSeq(sel, i, i + 2) = << "text", ":", Quote >>
                      /\ sel[i + 3] # Quote
                      /\ \E j \in (i + 4)..Len(sel) : sel[j] = Quote}
    IN  IF starts = {} THEN << >>
        ELSE LET i == Min(starts)
                 j == Min({k \in (i + 4)..Len(sel) : sel[k] = Quote})
             IN  SubSeq(sel, i + 3, j - 1)

\* the second pass only: no preference for the whole text
FindByTextContent_SubstringOnly(sel, dom) ==
    IF sel = InheritedFunction THEN Thrown
    ELSE IF TextMatch(sel) = << >> THEN NoEl
    ELSE LET searchText == ToLowerCase(TextMatch(sel))
             partial == {i \in 1..Len(dom) :
                            Includes(ToLowerCase(dom[i].text), searchText)}
         IN  IF partial # {} THEN Min(partial) ELSE NoEl

\* findByTextContent, lines 196-225
FindByTextContent(sel, dom) ==
    IF sel = InheritedFunction THEN Thrown
    ELSE IF TextMatch(sel) = << >> THEN NoEl
    ELSE LET searchText == ToLowerCase(TextMatch(sel))
             partial == {i \in 1..Len(dom) :
                            Includes(ToLowerCase(dom[i].text), searchText)}
             exact == {i \in partial :
                          Trim(ToLowerCase(dom[i].text)) = searchText}
         IN  IF exact # {} THEN Min(exact)
             ELSE IF partial # {} THEN Min(partial)
             ELSE NoEl

\* findByAttributes, lines 230-253.  attrMatch is the first match of
\* /\[([^=]+)\*?="([^"]+)"\]/, sel[i] its "[", sel[j] its "=" and sel[k]
\* its "]"; id is the one attribute the elements have.
FindByAttributes(sel, dom) ==
    LET Matches(i, j, k) ==
            /\ sel[i] = "["
            /\ \A m \in (i + 1)..(j - 1) : sel[m] # "="
            /\ SubSeq(sel, j, j + 1) = << "=", Quote >>
            /\ \A m \in (j + 2)..(k - 2) : sel[m] # Quote
            /\ SubSeq(sel, k - 1, k) = << Quote, "]" >>
        attrMatch == {m \in (1..Len(sel)) \X (1..Len(sel)) \X (1..Len(sel)) :
                         /\ m[1] + 2 <= m[2] /\ m[2] + 4 <= m[3]
                         /\ Matches(m[1], m[2], m[3])}
    IN  IF sel = InheritedFunction THEN Thrown
        ELSE IF attrMatch = {} THEN NoEl
        ELSE LET m == CHOOSE m \in attrMatch :
                          \A o \in attrMatch : m[1] <= o[1]
                 attribute == SubSeq(sel, m[1] + 1, m[2] - 1)
                 value == SubSeq(sel, m[2] + 2, m[3] - 2)
                 isPartialMatch == Includes(sel, << "*", "=" >>)
                 GetAttribute(el) ==
                     IF attribute = << "id" >> THEN << el.id >> ELSE << >>
                 found == {i \in 1..Len(dom) :
                              /\ GetAttribute(dom[i]) # << >>
                              /\ IF isPartialMatch
                                 THEN Includes(GetAttribute(dom[i]), value)
                                 ELSE GetAttribute(dom[i]) = value}
             IN  IF found # {} THEN Min(found) ELSE NoEl

\* findByPosition, lines 258-282.  posMatch is where the first match of
\* /position\((\d+),(\d+)(?:,(\d+))?\)/ begins; the layout puts the centre
\* of the i-th element at (100 * i, 0).
FindByPosition(sel, dom) ==
    LET posMatch == {i \in 1..(Len(sel) - 4) :
                        /\ sel[i] = "position("
                        /\ sel[i + 1] \in {"0", "200"}
                        /\ sel[i + 2] = ","
                        /\ sel[i + 3] \in {"0", "200"}
                        /\ sel[i + 4] = ")"}
        ParseInt(tok) == IF tok = "200" THEN 200 ELSE 0
        Abs(n) == IF n < 0 THEN 0 - n ELSE n
    IN  IF sel = InheritedFunction THEN Thrown
        ELSE IF posMatch = {} THEN NoEl
        ELSE LET x == ParseInt(sel[Min(posMatch) + 1])
                 y == ParseInt(sel[Min(posMatch) + 3])
                 tolerance == 10
                 found == {i \in 1..Len(dom) :
                              /\ Abs(100 * i - x) <= tolerance
                              /\ Abs(0 - y) <= tolerance}
             IN  IF found # {} THEN Min(found) ELSE NoEl

\* the strategies of findElementBySelector, lines 91-97
Strategy(name, sel, dom, current) ==
    CASE name = "direct" -> FindByDirectSelector(sel, dom, current)
      [] name = "fallback" -> FindByFallbackSelectors(sel, dom)
      [] name = "text" -> FindByTextContent(sel, dom)
      [] name = "attributes" -> FindByAttributes(sel, dom)
      [] name = "position" -> FindByPosition(sel, dom)

\* if (element): what a strategy gave is an element
Yields(r) == r # NoEl /\ r # Thrown

\* the loop of findElementBySelector, lines 99-109, over the strategies in
\* the given order: the element, the strategy that gave it and the
\* strategies tried
TryStrategies(order, sel, dom, current) ==
    LET Gave(k) == Strategy(order[k], sel, dom, current)
        First(yielding) ==
            IF yielding = {}
            THEN [el |-> NoEl, by |-> "none", tried |-> order]
            ELSE [el |-> Gave(Min(yielding)), by |-> order[Min(yielding)],
                  tried |-> SubSeq(order, 1, Min(yielding))]
    IN  First({k \in 1..Len(order) : Yields(Gave(k))})

\* the comma list is split before the whole selector is queried
FindElementBySelector_FallbackFirst(sel, dom, current) ==
    TryStrategies(<< "fallback", "direct", "text", "attributes", "position" >>,
                  sel, dom, current)

\* findElementBySelector, lines 90-112
FindElementBySelector(sel, dom, current) ==
    TryStrategies(<< "direct", "fallback", "text", "attributes", "position" >>,
                  sel, dom, current)

\* processSelector, lines 70-85: the selector, or << >> when it throws;
\* selectors.global is {known: "#a"}
ProcessSelector(sel) ==
    IF Head(sel) = "@"
    THEN LET selectorName == sel[2]
         IN  IF selectorName = "known" THEN << "#a" >>
             ELSE IF selectorName = "constructor" THEN InheritedFunction
             ELSE << >>
    ELSE sel

\* isElementValid, lines 395-397: document.contains throws a TypeError for
\* what is not a Node
IsElementValid(el, dom) ==
    IF el = NoEl THEN "no"
    ELSE IF el = VirtualEl THEN "throws"
    ELSE IF el \in 1..Len(dom) THEN "yes" ELSE "no"

\* the call throws: the cache is as it is then, the last found element as
\* it was
Failure(c, msg, tried, cache) ==
    [ok |-> FALSE, el |-> NoEl, error |-> msg, by |-> "none",
     tried |-> tried, cache |-> cache, current |-> c.current]

\* findElement, lines 25-65: the outcome, and the cache (a function from
\* selectors to elements) and the last found element after the call
ElementFinderFindElement(c) ==
    LET Found(f, processedSelector, cache) ==
            IF f.el = NoEl
            THEN Failure(c, "Element not found", f.tried, cache)
            ELSE [ok |-> TRUE, el |-> f.el, error |-> "", by |-> f.by,
                  tried |-> f.tried,
                  cache |-> IF c.useCache
                            THEN (processedSelector :> f.el) @@ cache
                            ELSE cache,
                  current |-> f.el]
        Lookup(processedSelector, cache) ==
            Found(FindElementBySelector(processedSelector, c.dom, c.current),
                  processedSelector, cache)
        Cached(processedSelector) ==
            IF ~(c.useCache /\ processedSelector \in DOMAIN c.cache)
            THEN Lookup(processedSelector, c.cache)
            ELSE IF IsElementValid(c.cache[processedSelector], c.dom) = "throws"
            THEN Failure(c, "TypeError", << >>, c.cache)
            ELSE IF IsElementValid(c.cache[processedSelector], c.dom) = "yes"
            THEN [ok |-> TRUE, el |-> c.cache[processedSelector],
                  error |-> "", by |-> "cache", tried |-> << >>,
                  cache |-> c.cache, current |-> c.current]
            ELSE Lookup(processedSelector,
                        [k \in DOMAIN c.cache \ {processedSelector} |->
                            c.cache[k]])
        Processed(processedSelector) ==
            IF processedSelector = << >>
            THEN Failure(c, "Global selector not found", << >>, c.cache)
            ELSE Cached(processedSelector)
    IN  Processed(ProcessSelector(c.selector))

\* findElement(selector, globalSelectors, options) of the element finder
CallFindElement ==
    /\ call.op = "findElement"
    /\ ~call.done
    /\ call' = [call EXCEPT !.done = TRUE,
                            !.result = ElementFinderFindElement(call)]
    /\ UNCHANGED engineVars

\* ------------------------------------------------------ the verify action
\* verifyElement, lines 1875-1888 of popup.js, with findElement, lines
\* 1316-1323: "passed" when it returns, "failed" when it throws
VerifyElement(c) ==
    LET found == ElementFinderFindElement(c).ok
        thrownInTry == ~found \/ ~c.shouldExist
    IN  IF ~thrownInTry THEN "passed"
        ELSE IF c.shouldExist THEN "failed"
        ELSE "passed"

\* the verify micro-action, lines 1297-1299 of popup.js
CallVerifyElement ==
    /\ call.op = "verifyElement"
    /\ ~call.done
    /\ call' = [call EXCEPT !.done = TRUE, !.result = VerifyElement(call)]
    /\ UNCHANGED engineVars

\* ------------------------------------------- commands by the background
\* handleMessage of the background, lines 81-124 of part_000, with
\* startAutomation, stopAutomation and pauseAutomation, lines 190-271, and
\* what the content script's handleMessage (popup.js, lines 936-979) does
\* with the command sent on to the tab.  c.session: the session manager has
\* an active session for the tab; c.delivered: chrome.tabs.sendMessage
\* reaches the tab's content script (it rejects otherwise).
\* (modules/session-manager.js is not part of the sources: a session is
\* created, and active, on a start command and discarded on stop, section 3
\* of the specification.)
SessionAfter(op, session) ==
    CASE op = "createSession" -> TRUE
      [] op = "endSession" -> FALSE
      [] OTHER -> session                               \* pauseSession

BackgroundHandleMessage(c) ==
    LET w == [World EXCEPT !.isRunning = c.isRunning, !.isPaused = c.isPaused]
        Answer(success, error, relayed, session, v) ==
            [success |-> success, error |-> error, relayed |-> relayed,
             session |-> session, isRunning |-> v.isRunning,
             isPaused |-> v.isPaused]
        Undelivered(session) ==           \* the catch of lines 220, 245, 267
            Answer(FALSE, "Could not establish connection", "none", session, w)
    IN  CASE c.type = "START_AUTOMATION" ->
                 IF c.delivered
                 THEN Answer(TRUE, "", c.type,
                             SessionAfter("createSession", c.session),
                             [w EXCEPT !.isRunning = TRUE, !.isPaused = FALSE])
                 ELSE Undelivered(SessionAfter("createSession", c.session))
          [] c.type = "STOP_AUTOMATION" ->
                 IF c.session /\ c.delivered
                 THEN Answer(TRUE, "", c.type,
                             SessionAfter("endSession", c.session),
                             StopAutomationBody(w))
                 ELSE IF c.session
                 THEN Undelivered(SessionAfter("endSession", c.session))
                 ELSE Answer(TRUE, "", "none", c.session, w)
          [] c.type = "PAUSE_AUTOMATION" ->
                 IF c.session /\ c.delivered
                 THEN Answer(TRUE, "", c.type,
                             SessionAfter("pauseSession", c.session),
                             PauseAutomationBody(w))
                 ELSE IF c.session
                 THEN Undelivered(SessionAfter("pauseSession", c.session))
                 ELSE Answer(TRUE, "", "none", c.session, w)
          [] c.type = "GET_SESSION_STATUS" ->
                 Answer(TRUE, "", "none", c.session, w)
          [] OTHER ->
                 Answer(FALSE, "Unknown message type", "none", c.session, w)

\* chrome.runtime.sendMessage({type}) of the popup, lines 295, 345 and 386
\* of popup.js
CallSendMessage ==
    /\ call.op = "sendMessage"
    /\ ~call.done
    /\ call' = [call EXCEPT !.done = TRUE,
                            !.result = BackgroundHandleMessage(call)]
    /\ UNCHANGED engineVars

\* ---------------------------------------------------------------- typeText
MaxText == 2

\* simulateTypo, lines 2513-2533 of popup.js, with typeCharacter, lines
\* 2468-2508, and pressKey, lines 2538-2559: the content of the element
\* after it.  hasValue: the element has a value (an input or a textarea);
\* otherwise the characters go to its textContent.
SimulateTypo(value, hasValue, correctChar) ==
    LET typoMap == [a |-> "s", s |-> "a", d |-> "s", f |-> "d",
                    q |-> "w", w |-> "q", e |-> "w", r |-> "e"]
        typoChar == IF correctChar \in DOMAIN typoMap THEN typoMap[correctChar]
                    ELSE "x"
        typed == value \o << typoChar >>
        afterBackspace == IF hasValue THEN SubSeq(typed, 1, Len(typed) - 1)
                          ELSE typed
    IN  afterBackspace \o << correctChar >>

\* the loop of typeText, lines 2443-2462, from the i-th character;
\* c.typos[i] is whether the draw after it is below 0.03
RECURSIVE TypeTextFrom(_, _, _)
TypeTextFrom(c, i, value) ==
    IF i > Len(c.text) THEN value
    ELSE LET char == c.text[i]
             typed == value \o << char >>
         IN  TypeTextFrom(c, i + 1,
                          IF c.typos[i] /\ i > 1
                          THEN SimulateTypo(typed, c.hasValue, char)
                          ELSE typed)

\* typeText, lines 2425-2463: the content of the element after the call.
\* element.select() selects and removes nothing; an element without a value
\* has no such method.
TypeText(c) ==
    IF c.clearFirst /\ ~c.hasValue
    THEN [ok |-> FALSE, value |-> c.before]
    ELSE [ok |-> TRUE, value |-> TypeTextFrom(c, 1, c.before)]

\* the type micro-action, lines 1288-1295 of popup.js
CallTypeText ==
    /\ call.op = "typeText"
    /\ ~call.done
    /\ call' = [call EXCEPT !.done = TRUE, !.result = TypeText(call)]
    /\ UNCHANGED engineVars

\* ------------------------------------------------------------------ scroll
\* scroll without a target element, lines 2398-2419 of popup.js: the amounts
\* given to window.scrollBy, in order.  The distance is a number, or a
\* string such as "-120px" (c.asString); steps = |scrollDistance| / 50 is a
\* fraction, and the loop runs while i < steps, that is while
\* 50 * i < |scrollDistance|.
Scroll(c) ==
    LET distance == IF c.asString
                    THEN (IF c.distance < 0 THEN << "-" >> ELSE << >>)
                            \o Decimal(IF c.distance < 0 THEN 0 - c.distance
                                       ELSE c.distance) \o << "p", "x" >>
                    ELSE << >>
        Replaced(str) ==                    \* str.replace('px', '')
            IF ~Includes(str, << "p", "x" >>) THEN str
            ELSE LET i == Min({k \in 1..(Len(str) - 1) :
                                  str[k] = "p" /\ str[k + 1] = "x"})
                 IN  SubSeq(str, 1, i - 1) \o SubSeq(str, i + 2, Len(str))
        ParseInt(str) ==
            IF str # << >> /\ Head(str) = "-" THEN 0 - ParseDigits(Tail(str), 0)
            ELSE ParseDigits(str, 0)
        Steps(scrollDistance, abs) ==
            [i \in 1..Cardinality({k \in 0..abs : 50 * k < abs}) |->
                (scrollDistance * 50) \div abs]    \* stepSize
        By(scrollDistance) ==
            Steps(scrollDistance,
                  IF scrollDistance < 0 THEN 0 - scrollDistance ELSE scrollDistance)
    IN  By(IF c.asString THEN ParseInt(Replaced(distance)) ELSE c.distance)

\* the scroll micro-action without "to", lines 1279-1285 of popup.js
CallScroll ==
    /\ call.op = "scroll"
    /\ ~call.done
    /\ call' = [call EXCEPT !.done = TRUE, !.result = Scroll(call)]
    /\ UNCHANGED engineVars

\* ------------------------------------------- the calls of these sections
\* The cache of a findElement call is what an earlier call with useCache can
\* have left under the selector: nothing, an element that is still the first
\* of the document, one that was removed since, and under browser_back the
\* virtual element.  The content script calls findElement without options.
\* The last found element is none or the first of the document, and for the
\* selector current, which reads it, also an element that was removed since.
InitCalls ==
    LET Key(s) == IF ProcessSelector(s) = << >> THEN s ELSE ProcessSelector(s)
        Caches(s, d) ==
            {<< >>, Key(s) :> Detached}
            \cup (IF d # << >> THEN {Key(s) :> 1} ELSE {})
            \cup (IF s = << "browser_back" >> THEN {Key(s) :> VirtualEl} ELSE {})
        FinderCalls ==
            UNION {UNION {[op : {"findElement"}, selector : {s},
                           useCache : BOOLEAN, dom : {d}, cache : Caches(s, d),
                           current : {NoEl} \cup (IF d # << >> THEN {1} ELSE {})
                                     \cup (IF s = << "current" >>
                                           THEN {Detached} ELSE {}),
                           done : {FALSE},
                           result : {Failure([current |-> NoEl], "", << >>, << >>)}] :
                              s \in FinderSelectors} : d \in Documents}
        VerifyCalls ==
            [op : {"verifyElement"}, selector : FinderSelectors,
             useCache : {FALSE}, dom : Documents, cache : {<< >>},
             current : {NoEl}, shouldExist : BOOLEAN, done : {FALSE},
             result : {"none"}]
        CommandCalls ==
            {c \in [op : {"sendMessage"},
                    type : {"START_AUTOMATION", "STOP_AUTOMATION",
                            "PAUSE_AUTOMATION", "RESUME_AUTOMATION",
                            "GET_SESSION_STATUS"},
                    session : BOOLEAN, isRunning : BOOLEAN, isPaused : BOOLEAN,
                    delivered : BOOLEAN, done : {FALSE}, result : {"none"}] :
                (c.isRunning <=> c.session)}
        TypeTextCalls ==
            UNION {[op : {"typeText"}, text : [1..n -> {"a", "b"}],
                    typos : [1..n -> BOOLEAN], before : {<< >>, << "z" >>},
                    hasValue : BOOLEAN, clearFirst : BOOLEAN, done : {FALSE},
                    result : {"none"}] : n \in 1..MaxText}
        ScrollCalls ==
            [op : {"scroll"},
             distance : {0 - 120, 0 - 100, 0 - 50, 0 - 20, 0, 30, 50, 100,
                         120, 150},
             asString : BOOLEAN, done : {FALSE}, result : {"none"}]
    IN  /\ EngineInit
        /\ currentPage = "none"
        /\ timeOnPage = 0
        /\ call \in FinderCalls \cup VerifyCalls \cup CommandCalls
                    \cup TypeTextCalls \cup ScrollCalls

NextCalls ==
    \/ CallFindElement
    \/ CallVerifyElement
    \/ CallSendMessage
    \/ CallTypeText
    \/ CallScroll

SpecCalls == InitCalls /\ [][NextCalls]_vars

\* --------------------------------------------------------- polling waits
\* One pass of the loop of waitForElement, lines 432-454 of
\* element-finder.js.  call.elapsed is Date.now() - startTime in
\* milliseconds, found what findElement gives on the document of the moment;
\* a timeout or interval of 0 stands for an option that is not given.
WaitForElementPolls ==
    /\ call.op = "waitForElement"
    /\ call.status = "polling"
    /\ LET timeout == IF call.timeout # 0 THEN call.timeout ELSE 10000
           interval == IF call.interval # 0 THEN call.interval ELSE 500
       IN  IF call.elapsed < timeout
           THEN \E found \in BOOLEAN :
                   call' = IF found THEN [call EXCEPT !.status = "returned"]
                           ELSE [call EXCEPT !.elapsed = @ + interval]
           ELSE call' = [call EXCEPT !.status = "timeout", !.raised = TRUE]
    /\ UNCHANGED engineVars

\* one pass of the loop of waitForElementToDisappear, lines 459-480
WaitForElementToDisappearPolls ==
    /\ call.op = "waitForElementToDisappear"
    /\ call.status = "polling"
    /\ LET timeout == IF call.timeout # 0 THEN call.timeout ELSE 10000
           interval == IF call.interval # 0 THEN call.interval ELSE 500
       IN  IF call.elapsed < timeout
           THEN \E found \in BOOLEAN :
                   call' = IF found THEN [call EXCEPT !.elapsed = @ + interval]
                           ELSE [call EXCEPT !.status = "returned"]
           ELSE call' = [call EXCEPT !.status = "timeout", !.raised = TRUE]
    /\ UNCHANGED engineVars

\* the timeout is an error
HandlePageTransitionPolls_Raises ==
    /\ call.op = "handlePageTransition"
    /\ call.status = "polling"
    /\ LET maxWaitTime == 10000
       IN  IF call.elapsed < maxWaitTime
           THEN \E detected \in BOOLEAN :
                   call' = [call EXCEPT !.elapsed = @ + 500,
                                        !.status = IF detected THEN "returned"
                                                   ELSE "polling"]
           ELSE call' = [call EXCEPT !.status = "timeout", !.raised = TRUE]
    /\ UNCHANGED engineVars

\* one pass of the loop of handlePageTransition, lines 1458-1476 of
\* popup.js: detected is whether detectCurrentPage gives the target page
HandlePageTransitionPolls ==
    /\ call.op = "handlePageTransition"
    /\ call.status = "polling"
    /\ LET maxWaitTime == 10000
       IN  IF call.elapsed < maxWaitTime
           THEN \E detected \in BOOLEAN :
                   call' = [call EXCEPT !.elapsed = @ + 500,
                                        !.status = IF detected THEN "returned"
                                                   ELSE "polling"]
           ELSE call' = [call EXCEPT !.status = "timeout"]
    /\ UNCHANGED engineVars

\* the waits, with the options timeout and interval given or not
InitPoll ==
    /\ EngineInit
    /\ currentPage = "none"
    /\ timeOnPage = 0
    /\ call \in [op : {"waitForElement", "waitForElementToDisappear"},
                 timeout : {0, 1000, 1200}, interval : {0, 400, 500},
                 elapsed : {0}, status : {"polling"}, raised : {FALSE}]
                \cup [op : {"handlePageTransition"}, timeout : {0},
                      interval : {0}, elapsed : {0}, status : {"polling"},
                      raised : {FALSE}]

NextPoll ==
    \/ WaitForElementPolls
    \/ WaitForElementToDisappearPolls
    \/ HandlePageTransitionPolls

\* the timers of the waits fire
SpecPoll == InitPoll /\ [][NextPoll]_vars /\ WF_vars(NextPoll)

\* -------------------------------------------------------- storage manager
\* src/background/modules/storage-manager.js.  A run is either two session
\* operations in flight at once on the record wa_sessions of
\* chrome.storage.local, or a sequence of settings operations on wa_settings
\* of chrome.storage.sync, or a sequence of operations of the configuration
\* manager and the website detector on wa_websites.  wa_sessions maps session ids to sessions, of
\* which the age of lastUpdated is kept: "old" is more than 24 hours ago.
\* What chrome.storage.sync holds under wa_settings is a set, empty when
\* the key is not stored.
MaxStoreOps == 3

\* this.DEFAULT_SETTINGS as the constructor leaves it, lines 14-23 (two of
\* the eight keys)
DEFAULT_SETTINGS == [debugMode |-> FALSE, theme |-> "system"]

\* getSettings, lines 46-54: without a stored value the result is the object
\* this.DEFAULT_SETTINGS itself (c.defaults is its present content)
GetSettings(c) ==
    IF c.sync = {} THEN [value |-> c.defaults, isDefaults |-> TRUE]
    ELSE [value |-> CHOOSE v \in c.sync : TRUE, isDefaults |-> FALSE]

\* what saveSession (lines 220-223), deleteSession (line 268) and
\* cleanupOldSessions (lines 292-297) make of the sessions they read
Modified(o, sessions) ==
    CASE o.kind = "saveSession" -> (o.id :> "fresh") @@ sessions
      [] o.kind = "deleteSession" ->
            [k \in DOMAIN sessions \ {o.id} |-> sessions[k]]
      [] OTHER ->
            [k \in {j \in DOMAIN sessions : sessions[j] # "old"} |-> sessions[k]]

\* getSessions returns, lines 252-255: the operation p has its own copy of
\* the record as it is stored now
ReadSessions(p) ==
    /\ call.op = "sessions"
    /\ call.procs[p].pc = "start"
    /\ call' = [call EXCEPT !.procs[p].pc = "read",
                            !.procs[p].sessions = call.stored]
    /\ UNCHANGED engineVars

\* chrome.storage.local.set of the operation p, lines 225, 270 and 300:
\* cleanupOldSessions writes only if it removed a session (line 299)
WriteSessions(p) ==
    /\ call.op = "sessions"
    /\ call.procs[p].pc = "read"
    /\ LET o == call.procs[p]
           sessions == Modified(o, o.sessions)
       IN  call' = [call EXCEPT
                      !.procs[p].pc = "done",
                      !.stored = IF o.kind = "cleanupOldSessions"
                                    /\ sessions = o.sessions
                                 THEN @ ELSE sessions]
    /\ UNCHANGED engineVars

\* setDefaultSettings, lines 29-41: existing is an object, which is truthy
SetDefaultSettings(c) ==
    LET Written(existing) ==
            IF existing.value = << >>                  \* !existing
            THEN [c EXCEPT !.sync = {c.defaults}] ELSE c
    IN  Written(GetSettings(c))

\* updateSetting, lines 59-74: the assignment of line 62 is to the object
\* getSettings returned
UpdateSetting(c, key, value) ==
    LET Set(got, settings) ==
            [c EXCEPT !.sync = {settings},
                      !.defaults = IF got.isDefaults THEN settings ELSE @]
        Assigned(got) == Set(got, [got.value EXCEPT ![key] = value])
    IN  Assigned(GetSettings(c))

\* clearAllData, lines 393-408
ClearAllData(c) == SetDefaultSettings([c EXCEPT !.sync = {}])

\* one operation on the settings: c.last is its name, c.before what was
\* stored before it
CallSettings(name, key, value) ==
    /\ call.op = "settings"
    /\ call.n < MaxStoreOps
    /\ key \in DOMAIN DEFAULT_SETTINGS
    /\ LET c == [call EXCEPT !.n = @ + 1, !.last = name, !.before = call.sync]
       IN  call' = CASE name = "setDefaultSettings" -> SetDefaultSettings(c)
                     [] name = "updateSetting" -> UpdateSetting(c, key, value)
                     [] OTHER -> ClearAllData(c)
    /\ UNCHANGED engineVars

\* ------------------------------------ website detector, configuration manager
\* part_001.  A host name and a domain are sequences of labels; wa_websites
\* and the detector's configCache map domains to configurations, of which
\* the version is kept.  The configurations have no urlPatterns.
\* extractDomain, lines 91-120
ExtractDomain(hostname) ==
    LET Parts(domain) ==
            IF Len(domain) <= 2 THEN domain
            ELSE IF domain[Len(domain)] \in
                      {"com", "org", "net", "edu", "gov", "mil", "int"}
            THEN SubSeq(domain, Len(domain) - 1, Len(domain))
            ELSE IF domain[Len(domain) - 1] \in
                      {"co", "com", "org", "net", "edu", "gov"}
            THEN SubSeq(domain, Len(domain) - 2, Len(domain))
            ELSE SubSeq(domain, Len(domain) - 1, Len(domain))
    IN  Parts(IF hostname # << >> /\ Head(hostname) = "www"
              THEN Tail(hostname) ELSE hostname)

\* getWebsiteConfigs, lines 179-204: the configurations it returns, and the
\* cache after it.  c.cacheFresh: less than CACHE_DURATION has passed since
\* lastCacheUpdate.
GetWebsiteConfigs(c) ==
    IF DOMAIN c.cache # {} /\ c.cacheFresh
    THEN [configs |-> c.cache, cache |-> c.cache, cacheFresh |-> c.cacheFresh]
    ELSE [configs |-> c.stored, cache |-> c.stored, cacheFresh |-> TRUE]

\* detectWebsite, lines 14-54, with findSubdomainMatch, lines 125-139 (at
\* most one configured domain matches here): the version of the
\* configuration returned, "null" for null
DetectWebsite(hostname) ==
    /\ call.op = "websites"
    /\ call.n < MaxStoreOps
    /\ LET domain == ExtractDomain(hostname)
           EndsWith(str, suffix) ==
               /\ Len(suffix) < Len(str)
               /\ SubSeq(str, Len(str) - Len(suffix) + 1, Len(str)) = suffix
           Matched(configs) ==
               IF domain \in DOMAIN configs THEN configs[domain]
               ELSE IF \E d \in DOMAIN configs :
                          EndsWith(domain, d) \/ EndsWith(d, domain)
               THEN configs[CHOOSE d \in DOMAIN configs :
                               EndsWith(domain, d) \/ EndsWith(d, domain)]
               ELSE "null"
           After(got) ==
               [call EXCEPT !.n = @ + 1, !.last = "detectWebsite",
                            !.domain = domain, !.result = Matched(got.configs),
                            !.cache = got.cache, !.cacheFresh = got.cacheFresh]
       IN  call' = After(GetWebsiteConfigs(call))
    /\ UNCHANGED engineVars

\* saveWebsiteConfig of the configuration manager, lines 502-540, with a
\* valid configuration.  c.changed: the domains whose configuration was
\* replaced or deleted in the run.
SaveWebsiteConfig(domain, version) ==
    /\ call.op = "websites"
    /\ call.n < MaxStoreOps
    /\ call' = [call EXCEPT !.n = @ + 1, !.last = "saveWebsiteConfig",
                            !.domain = domain, !.result = "true",
                            !.changed = IF domain \in DOMAIN call.stored
                                        THEN @ \cup {domain} ELSE @,
                            !.stored = (domain :> version) @@ @]
    /\ UNCHANGED engineVars

\* deleteWebsiteConfig of the configuration manager, lines 566-587
DeleteWebsiteConfig(domain) ==
    /\ call.op = "websites"
    /\ call.n < MaxStoreOps
    /\ call' = IF domain \in DOMAIN call.stored
               THEN [call EXCEPT !.n = @ + 1, !.last = "deleteWebsiteConfig",
                                 !.domain = domain, !.result = "true",
                                 !.changed = @ \cup {domain},
                                 !.stored = [d \in DOMAIN @ \ {domain} |-> @[d]]]
               ELSE [call EXCEPT !.n = @ + 1, !.last = "deleteWebsiteConfig",
                                 !.domain = domain, !.result = "false"]
    /\ UNCHANGED engineVars

\* five minutes pass: Date.now() - lastCacheUpdate reaches CACHE_DURATION,
\* line 183
CacheExpires ==
    /\ call.op = "websites"
    /\ call.cacheFresh
    /\ call' = [call EXCEPT !.cacheFresh = FALSE, !.last = "none"]
    /\ UNCHANGED engineVars

\* -------------------------------------------------- the runs on the storage
InitStore ==
    LET Ids == {"s1", "s2"}
        Records == UNION {[D -> {"old", "fresh"}] : D \in SUBSET Ids}
        Operations ==
            [kind : {"saveSession", "deleteSession"}, id : Ids,
             pc : {"start"}, sessions : {<< >>}]
            \cup [kind : {"cleanupOldSessions"}, id : {"none"},
                  pc : {"start"}, sessions : {<< >>}]
        SessionRuns ==
            {[op |-> "sessions", initial |-> r, stored |-> r,
              procs |-> << o1, o2 >>] :
                r \in Records, o1 \in Operations, o2 \in Operations}
        SettingsRuns ==
            [op : {"settings"},
             sync : {{}, {DEFAULT_SETTINGS},
                     {[DEFAULT_SETTINGS EXCEPT !.theme = "dark"]}},
             defaults : {DEFAULT_SETTINGS}, n : {0}, last : {"none"},
             before : {{}}]
        Domains == {<< "a", "com" >>, << "b", "org" >>}
        WebsiteRuns ==
            [op : {"websites"},
             stored : UNION {[D -> {"v1", "v2"}] : D \in SUBSET Domains},
             cache : {<< >>}, cacheFresh : {FALSE}, n : {0}, last : {"none"},
             domain : {<< >>}, result : {"null"}, changed : {{}}]
    IN  /\ EngineInit
        /\ currentPage = "none"
        /\ timeOnPage = 0
        /\ call \in SessionRuns \cup SettingsRuns \cup WebsiteRuns

NextStore ==
    \/ \E p \in {1, 2} : ReadSessions(p)
    \/ \E p \in {1, 2} : WriteSessions(p)
    \/ \E name \in {"setDefaultSettings", "updateSetting", "clearAllData"},
          value \in {"system", "dark"} :
            CallSettings(name, "theme", value)
    \/ \E hostname \in {<< "www", "a", "com" >>, << "a", "com" >>,
                         << "shop", "b", "org" >>} : DetectWebsite(hostname)
    \/ \E domain \in {<< "a", "com" >>, << "b", "org" >>},
          version \in {"v1", "v2"} : SaveWebsiteConfig(domain, version)
    \/ \E domain \in {<< "a", "com" >>, << "b", "org" >>} :
            DeleteWebsiteConfig(domain)
    \/ CacheExpires

SpecStore == InitStore /\ [][NextStore]_vars

\* ------------------------------------------------------------------ claims
InFlight == {p \in Slots : ticks[p].pc # "idle"}

\* C1: under every interleaving of the commands, the keyboard toggle and the
\* timers, at most one executeScenario invocation that passed its guard has
\* not yet returned.
C1_AtMostOneTickInProgress == Cardinality(InFlight) <= 1

\* C2: an action's impact is applied only if every micro-action of its
\* micro-sequence was executed and completed without error.
C2_ImpactOnlyAfterFullSequence ==
    lastImpact.valid => lastImpact.nOk = lastImpact.len

\* C3: while isPaused is true no tick begins: no step makes an executeScenario
\* invocation pass its guard, and no step starts a micro-action, and leaves
\* the engine paused.
C3_NoTickBeginsWhilePaused ==
    /\ [][ticksBegun' # ticksBegun => ~isPaused']_vars
    /\ [](microStarted => ~isPaused)

\* C3 witness: a tick timer's callback ran while the engine was paused.
C3_Witness == lastOp = "timer" /\ isRunning /\ isPaused

\* C4: every pending tick timer is the one executionTimer refers to, so that
\* pause and stop cancel every pending tick.
C4_EveryPendingTimerIsReferenced == timers \subseteq {executionTimer}

Idle ==
    /\ ~isRunning /\ ~isPaused
    /\ currentSession = NoSession /\ currentScenario = NoSession
    /\ executionTimer = NoTimer

\* C5: stopAutomation, called in any state, leaves the engine idle (isRunning
\* and isPaused false, currentSession, currentScenario and executionTimer
\* null), and no tick passes the executeScenario guard afterwards until a new
\* START_AUTOMATION.
C5_StopLeavesIdle ==
    /\ [](lastOp = "stop" => Idle)
    /\ [][ticksBegun' # ticksBegun => ~stopped']_vars
    /\ [](stopped => ~isRunning /\ executionTimer = NoTimer)

\* C5 witness: stopAutomation ran while a tick was executing a micro-action
\* and while an unreferenced tick timer was pending.
C5_Witness ==
    /\ lastOp = "stop"
    /\ \E p \in Slots : ticks[p].pc = "micro"
    /\ timers # {}

\* C6: while the engine stays paused, no step of the engine changes the
\* accumulated metrics or the detected page type (external navigation, which
\* is an event, is left aside).
C6_PausePreservesMetricsAndPage ==
    [][(isRunning /\ isPaused /\ isPaused' /\ nEvents' = nEvents)
          => (metrics' = metrics /\ currentPage' = currentPage)]_vars

\* the end-to-end run: START_AUTOMATION with Scenario1 on its page (the page
\* has a configuration), no other command or page event, no fatal
\* micro-action error
EndToEndRun ==
    /\ nEvents = 1 /\ goals = 1 /\ currentPage = "home"
    /\ lastTick.valid /\ ~lastTick.noCfg /\ ~lastTick.fatal

\* C7 (as claimed): in the end-to-end run, when exactly one tick has run the
\* session is no longer running and visits is 1.
C7_OneTickCompletes ==
    (EndToEndRun /\ ticksBegun = 1 /\ ticksDone = 1)
        => (~isRunning /\ metrics = 1)

\* C7 (amended): in the end-to-end run, after the first tick visits is 1 and
\* the session is still running with the next tick scheduled; the second tick
\* completes the session, and visits is still 1.
C7_SecondTickCompletes ==
    /\ (EndToEndRun /\ ticksBegun = 1 /\ ticksDone = 1)
          => (isRunning /\ metrics = 1 /\ timers = {executionTimer})
    /\ (EndToEndRun /\ ticksDone = 2)
          => (~isRunning /\ metrics = 1 /\ lastTick.completed /\ timers = {})

\* C7 witness: the end-to-end run has finished its second tick.
C7_Witness == EndToEndRun /\ ticksDone = 2 /\ metrics = 1 /\ ~isRunning

\* C8: a tick that finds no eligible action, or no page configuration, while
\* window.history.length is not greater than 1, completes the session.
C8_StuckWithoutHistoryCompletes ==
    (lastTick.valid /\ (lastTick.noElig \/ lastTick.noCfg) /\ ~lastTick.canBack)
        => lastTick.completed

\* C9: whenever a tick ends with no eligible action, handleStuckScenario was
\* taken.
C9_NoEligibleActionTakesStuckPath ==
    (lastTick.valid /\ lastTick.noElig) => lastTick.stuck

FatalMessages == {"network_error", "page_crash", "extension_error"}

C11_FatalStopsOtherErrorsReschedule ==
    /\ (lastTick.valid /\ lastTick.fatal) => (Idle /\ timers = {})
    /\ (lastTick.valid /\ lastTick.err # "" /\ ~lastTick.fatal
            /\ isRunning /\ ~isPaused)
          => executionTimer \in timers

\* C12: no executeScenario invocation ends by rejecting.
C12_NoErrorEscapesTheRunLoop == lastTick.valid => ~lastTick.escaped

\* C13: after a session was ended by a fatal error, GET_STATUS reports
\* something else than it reports after a manual stop (or a completion, which
\* ends in stopAutomation as well) on the same page with the same progress.
C13_FatalEndIsObservable ==
    (lastTick.valid /\ lastTick.fatal)
        => GetStatus(World) # GetStatus(StopAutomationBody(World))

AtPc(tk, pc) == {p \in Slots : tk[p].pc = pc}

\* C14: a tick that begins when the goals are met and the session is timed
\* out goes to completeSession, not to timeoutSession, and starts no
\* micro-action and looks up no page configuration.
C14_GoalsMetPrecedesTimeout ==
    [][(/\ ticksBegun' = ticksBegun + 1
        /\ metrics' = metrics /\ goals' = goals
        /\ AreGoalsMet(World) /\ IsSessionTimedOut(World))
          => /\ Cardinality(AtPc(ticks', "complete_log"))
                  = Cardinality(AtPc(ticks, "complete_log")) + 1
             /\ Cardinality(AtPc(ticks', "timeout_log"))
                  = Cardinality(AtPc(ticks, "timeout_log"))
             /\ ~microStarted'
             /\ \A p \in Slots : ticks'[p].pc = "complete_log"
                                    => ticks'[p].cfg = NoConfig]_vars

\* C14 witness: a tick timer's callback passed the guard with the goals met
\* and the session timed out, and its tick is in completeSession.
C14_Witness ==
    /\ lastOp = "timer" /\ isRunning /\ ~isPaused
    /\ AreGoalsMet(World) /\ IsSessionTimedOut(World)
    /\ AtPc(ticks, "complete_log") # {}

\* C15: with no page change after START_AUTOMATION, the entry actions of the
\* page run in the first tick only: no later tick executes an entry action.
C15_EntryActionsOncePerArrival ==
    ~(/\ nEvents = 1 /\ ticksBegun >= 2
      /\ \E p \in Slots : ticks[p].pc = "micro" /\ ticks[p].seq = "entry")

\* -------------------------------------------------- claims on selectAction
Returned == call.op = "selectAction" /\ call.result # NotCalled

Resolves(sel) == ElementPresent(sel, currentPage)

\* the presence conditions of an action do not hold on the page
FailsPresence(c) ==
    \/ c.elementExists # "" /\ ~Resolves(c.elementExists)
    \/ c.elementNotExists # "" /\ Resolves(c.elementNotExists)

\* the preconditions of an action are met (time bounds in seconds)
Met(c) ==
    /\ ~FailsPresence(c)
    /\ c.minTimeOnPage = 0 \/ timeOnPage >= 1000 * c.minTimeOnPage
    /\ c.maxTimeOnPage = 0 \/ timeOnPage <= 1000 * c.maxTimeOnPage
    /\ metrics >= c.goalProgress

\* the eligible actions a1..an of the call, as indices of its list
EligibleIdx ==
    SelectSeq([i \in 1..Len(call.actions) |-> i],
              LAMBDA i : Met(call.actions[i].conditions))

RECURSIVE WeightUpTo(_)
WeightUpTo(k) ==
    IF k = 0 THEN 0
    ELSE call.actions[EligibleIdx[k]].probability + WeightUpTo(k - 1)

Doubled ==
    [i \in 1..Len(call.actions) |->
        [call.actions[i] EXCEPT !.probability = 2 * @]]

\* C16: with r = u * (p1 + ... + pn), selectAction returns the first eligible
\* action ai with r - (p1 + ... + pi) <= 0, which is an eligible action; and
\* it returns the same action when every weight is doubled.
C16_WeightedWalk ==
    (Returned /\ EligibleIdx # << >>) =>
        LET n == Len(EligibleIdx)
            r == call.u * WeightUpTo(n)      \* times RandomDenominator
        IN  /\ \E k \in 1..n :
                  /\ call.result = EligibleIdx[k]
                  /\ r <= RandomDenominator * WeightUpTo(k)
                  /\ \A j \in 1..(k - 1) : r > RandomDenominator * WeightUpTo(j)
            /\ call.result =
                  SelectAction([CallConfig EXCEPT !.nonNavigation = Doubled],
                               GetAvailableActions(CallConfig), call.u, World)

\* C16 witness: two actions were eligible and the walk went past the first.
C16_Witness ==
    /\ Returned /\ Len(EligibleIdx) = 2 /\ call.result = EligibleIdx[2]

\* C17: selectAction returns null when its list is empty or no action of it
\* meets its conditions.
C17_NoEligibleActionReturnsNull ==
    (Returned /\ \A i \in 1..Len(call.actions) : ~Met(call.actions[i].conditions))
        => call.result = 0

\* C17 witness: null was returned for a list of two actions, one of them with
\* an elementExists condition on an undefined global selector.
C17_Witness ==
    /\ Returned /\ call.result = 0 /\ Len(call.actions) = 2
    /\ \E i \in 1..2 : call.actions[i].conditions.elementExists = "@ghost"

\* C18: the action selectAction returns has no elementExists condition on a
\* selector that resolves to nothing and no elementNotExists condition on a
\* selector that resolves.
C18_PresenceConditionsFilter ==
    (Returned /\ call.result # 0)
        => ~FailsPresence(call.actions[call.result].conditions)

\* C18 witness: an action was returned although another one, of the largest
\* weight, was in the list with a presence condition that fails.
C18_Witness ==
    /\ Returned /\ call.result # 0
    /\ \E i \in 1..Len(call.actions) :
          /\ FailsPresence(call.actions[i].conditions)
          /\ call.actions[i].probability = MaxWeight

\* a single action with time bounds only: it is returned iff it passes the
\* time check
TimeCheckOnly ==
    /\ Returned /\ Len(call.actions) = 1
    /\ call.actions[1].conditions.elementExists = ""
    /\ call.actions[1].conditions.elementNotExists = ""

\* C19 (as claimed): the time check passes iff the time on the page, in
\* milliseconds, is at least minTimeOnPage and at most maxTimeOnPage.
C19_ThresholdsInMilliseconds ==
    TimeCheckOnly =>
        LET c == call.actions[1].conditions
        IN  call.result # 0
              <=> /\ c.minTimeOnPage = 0 \/ timeOnPage >= c.minTimeOnPage
                  /\ c.maxTimeOnPage = 0 \/ timeOnPage <= c.maxTimeOnPage

\* C19 (amended): the time check passes iff the time on the page, in
\* milliseconds, is at least 1000 * minTimeOnPage and at most
\* 1000 * maxTimeOnPage: the thresholds are seconds.
C19_ThresholdsInSeconds ==
    TimeCheckOnly =>
        LET c == call.actions[1].conditions
        IN  call.result # 0
              <=> /\ c.minTimeOnPage = 0 \/ timeOnPage >= 1000 * c.minTimeOnPage
                  /\ c.maxTimeOnPage = 0 \/ timeOnPage <= 1000 * c.maxTimeOnPage

\* C19 witness: an action with minTimeOnPage 1 was returned after exactly
\* 1000 milliseconds on the page.
C19_Witness ==
    /\ TimeCheckOnly /\ call.actions[1].conditions.minTimeOnPage = 1
    /\ timeOnPage = 1000 /\ call.result = 1

\* C20: for a duration string "a-bs" with a <= b, the value parseDuration
\* samples is at least a * 1000 and at most b * 1000 milliseconds, whatever
\* the draw.
C20_RangeSampleWithinBounds ==
    (call.op = "parseDuration" /\ call.form = "a-bs" /\ call.result # NotCalled)
        => /\ RandomDenominator * 1000 * call.a <= call.result
           /\ call.result <= RandomDenominator * 1000 * call.b

\* ---------------------------------------------------------- claims on wait
\* the duration of the call after the variation, in 1/WaitUnit milliseconds
VariedDuration ==
    IF call.randomDelay THEN Varied(DurationOf(call), call.u2)
    ELSE 10 * RandomDenominator * DurationOf(call)

\* C21: the delay wait gives to setTimeout is at least 100 ms; with slowMode
\* it is the larger of 100 ms and twice the varied duration.
C21_WaitAtLeast100ms ==
    (call.op = "wait" /\ call.result # NotCalled)
        => /\ call.result >= 100 * WaitUnit
           /\ call.slowMode
                => call.result = Max(100 * WaitUnit, 2 * VariedDuration)
           /\ ~call.slowMode
                => call.result = Max(100 * WaitUnit, VariedDuration)

\* C21 witness: with slowMode, a duration that is not 0 and whose double is
\* still below 100 ms was waited for 100 ms.
C21_Witness ==
    /\ call.op = "wait" /\ call.slowMode /\ call.randomDelay
    /\ call.result = 100 * WaitUnit
    /\ VariedDuration > 0 /\ 2 * VariedDuration < 100 * WaitUnit

\* ------------------------------------------------- claims on findElement
FinderReturned == call.op = "findElement" /\ call.done

\* the call looked the selector up: it neither failed before the lookup nor
\* answered from the cache
LookedUp ==
    /\ FinderReturned
    /\ call.result.by # "cache"
    /\ call.result.error \notin {"Global selector not found", "TypeError"}

\* C22: findElement on "@name" with a name that is not a key of
\* selectors.global fails at once with the global-selector-not-found error:
\* no strategy is tried, and the cache and the last found element stay as
\* they were.
C22_UnknownGlobalFailsImmediately ==
    (FinderReturned /\ Head(call.selector) = "@"
                    /\ call.selector[2] # "known")
        => /\ ~call.result.ok
           /\ call.result.error = "Global selector not found"
           /\ call.result.tried = << >>
           /\ call.result.cache = call.cache
           /\ call.result.current = call.current

\* the order the strategies are claimed to be tried in
ClaimedOrder == << "direct", "fallback", "text", "attributes", "position" >>

\* what the k-th strategy of the claimed order gives on the call's selector
Gives(k) ==
    Strategy(ClaimedOrder[k], ProcessSelector(call.selector), call.dom,
             call.current)

\* C23: the strategies are tried in the order direct, comma list, text,
\* attribute, position, and the first that yields an element determines the
\* result; a later one is consulted only when every earlier one gave nothing
\* or failed, so what the direct query matches wins over a later strategy.
C23_FirstYieldingStrategyWins ==
    LookedUp
        => /\ \A k \in 1..Len(ClaimedOrder) :
                  (Yields(Gives(k)) /\ \A j \in 1..(k - 1) : ~Yields(Gives(j)))
                      => /\ call.result.el = Gives(k)
                         /\ call.result.by = ClaimedOrder[k]
                         /\ call.result.tried = SubSeq(ClaimedOrder, 1, k)
           /\ (\A k \in 1..Len(ClaimedOrder) : ~Yields(Gives(k)))
                  => ~call.result.ok /\ call.result.tried = ClaimedOrder

\* C23 witness: the direct query and the comma list give different elements
\* and the call returned the element of the direct query.
C23_Witness ==
    /\ LookedUp
    /\ Yields(Gives(1)) /\ Yields(Gives(2)) /\ Gives(1) # Gives(2)
    /\ call.result.el = Gives(1)
    /\ call.result.tried = << "direct" >>

\* the sub-selectors of a comma list that match an element of the document
MatchingParts ==
    {k \in 1..Len(Split(call.selector, ",")) :
        \E i \in 1..Len(call.dom) :
            MatchesCompound(call.dom[i], Trim(Split(call.selector, ",")[k]))}

\* C24: for a comma-separated list, findElement returns a match of the
\* leftmost sub-selector that matches any element, whatever the document
\* order of the elements the other sub-selectors match.
C24_LeftmostSubSelectorWins ==
    (LookedUp /\ Includes(call.selector, << "," >>)
              /\ IsSelectorList(call.selector) /\ MatchingParts # {})
        => /\ call.result.ok
           /\ call.result.el \in 1..Len(call.dom)
           /\ MatchesCompound(call.dom[call.result.el],
                              Trim(Split(call.selector, ",")[Min(MatchingParts)]))

\* the elements whose trimmed text is the content of the text selector
ExactText ==
    {i \in 1..Len(call.dom) :
        Trim(call.dom[i].text) = TextMatch(call.selector)}

\* the same, letter case ignored
ExactTextIgnoringCase ==
    {i \in 1..Len(call.dom) :
        Trim(ToLowerCase(call.dom[i].text)) =
            ToLowerCase(TextMatch(call.selector))}

\* the elements whose text contains the content, letter case ignored
ContainsTextIgnoringCase ==
    {i \in 1..Len(call.dom) :
        Includes(ToLowerCase(call.dom[i].text),
                 ToLowerCase(TextMatch(call.selector)))}

\* C25 as stated: for text:"content", if the trimmed text of an element
\* equals the content, the result is such an element.
C25_ExactTextPreferred ==
    (FinderReturned /\ call.result.by = "text" /\ ExactText # {})
        => call.result.el \in ExactText

\* C25: for text:"content" resolved by the text strategy, if the trimmed
\* text of an element equals the content up to letter case, the result is
\* the first such element, even when an earlier element merely contains the
\* content; an element that only contains it is returned only if there is
\* no such element.
C25_ExactTextIgnoringCasePreferred ==
    (FinderReturned /\ call.result.by = "text")
        => /\ ExactTextIgnoringCase # {}
                => call.result.el = Min(ExactTextIgnoringCase)
           /\ ExactTextIgnoringCase = {}
                => call.result.el = Min(ContainsTextIgnoringCase)

\* C25 witness: the first element only contains the content, the second is
\* the content, and the second was returned.
C25_Witness ==
    /\ FinderReturned /\ call.result.by = "text"
    /\ Len(call.dom) = 2
    /\ 1 \in ContainsTextIgnoringCase \ ExactTextIgnoringCase
    /\ 2 \in ExactText
    /\ call.result.el = 2

\* the key of the cache and the outcome of a fresh lookup
PostAlias == ProcessSelector(call.selector)
FreshLookup == FindElementBySelector(PostAlias, call.dom, call.current)

\* the cached element of the call is attached to the document
CachedIsAttached ==
    PostAlias \in DOMAIN call.cache /\ call.cache[PostAlias] \in 1..Len(call.dom)

\* C26: with useCache, a cached element is returned only if it is still
\* attached; if it is not, the entry is removed and a fresh lookup is made,
\* whose result, if any, is returned and cached under the post-alias
\* selector.  Without useCache the cache is neither read nor written.
C26_CacheSemantics ==
    (FinderReturned /\ PostAlias # << >>)
        => /\ (call.useCache /\ CachedIsAttached)
                => call.result.ok /\ call.result.el = call.cache[PostAlias]
           /\ call.result.by = "cache" => call.useCache /\ CachedIsAttached
           /\ (call.useCache /\ PostAlias \in DOMAIN call.cache /\ ~CachedIsAttached)
                => /\ FreshLookup.el # NoEl
                        => /\ call.result.ok
                           /\ call.result.el = FreshLookup.el
                           /\ PostAlias \in DOMAIN call.result.cache
                           /\ call.result.cache[PostAlias] = FreshLookup.el
                   /\ FreshLookup.el = NoEl
                        => ~call.result.ok /\ PostAlias \notin DOMAIN call.result.cache
           /\ ~call.useCache
                => /\ call.result.cache = call.cache
                   /\ call.result.by # "cache"
                   /\ call.result.el = FreshLookup.el

\* ---------------------------------------------- claims on verifyElement
\* C27: the verify micro-action fails exactly when the existence of the
\* target differs from the expected boolean.
C27_VerifyFailsIffExistenceDiffers ==
    (call.op = "verifyElement" /\ call.done)
        => ((call.result = "failed")
               <=> (ElementFinderFindElement(call).ok # call.shouldExist))

\* ------------------------------------------------- claims on the commands
\* C28: every command of the protocol is handled by the background handler
\* the popup sends it to; RESUME_AUTOMATION for a paused session is answered
\* with success, reaches the content script and ends the pause.
C28_ResumeIsHandledEndToEnd ==
    (call.op = "sendMessage" /\ call.done)
        => /\ call.result.error # "Unknown message type"
           /\ (call.type = "RESUME_AUTOMATION" /\ call.session /\ call.isPaused)
                => /\ call.result.success
                   /\ call.result.relayed = "RESUME_AUTOMATION"
                   /\ call.result.isRunning /\ ~call.result.isPaused

\* ------------------------------------------- claims on the polling waits
PollOps == {"waitForElement", "waitForElementToDisappear",
            "handlePageTransition"}

\* the deadline and the polling interval of the call, in milliseconds
Deadline == IF call.timeout # 0 THEN call.timeout ELSE 10000
PollingInterval == IF call.interval # 0 THEN call.interval ELSE 500

\* C29: every polling wait ends no later than one polling interval after its
\* deadline: waitForElement and waitForElementToDisappear return or fail
\* with the timeout error, handlePageTransition returns without raising, and
\* none polls forever though what it waits for never comes.
C29_PollingWaitsTerminate ==
    /\ [](call.op \in PollOps
            => /\ call.elapsed <= Deadline + PollingInterval
               /\ call.status = "returned" => ~call.raised
               /\ call.status = "timeout"
                    => /\ call.elapsed >= Deadline
                       /\ call.raised <=> call.op # "handlePageTransition")
    /\ <>(call.op \in PollOps => call.status # "polling")

\* C29 witness: handlePageTransition has given up after 10 s.
C29_Witness ==
    /\ call.op = "handlePageTransition"
    /\ call.status = "timeout" /\ ~call.raised
    /\ call.elapsed = 10000

\* --------------------------------------------------- claims on typeText
\* C30: after typeText the content of the field ends with exactly the text,
\* whatever the typo draws, and with clearFirst it is the text.
C30_TypedValueIsText ==
    (call.op = "typeText" /\ call.done /\ call.result.ok)
        => call.result.value =
               (IF call.clearFirst THEN << >> ELSE call.before) \o call.text

C34_PausedImpliesRunning == isPaused => isRunning

\* C35: whenever the session is running and not paused, a tick is in
\* progress or the next tick is scheduled.
C35_RunningSessionNeverStalls ==
    (isRunning /\ ~isPaused) => (InFlight # {} \/ executionTimer \in timers)

\* C36: a START_AUTOMATION that is answered with success false leaves the
\* engine with isRunning false and currentSession null.
C36_FailedStartLeavesIdle ==
    [][StartAutomationFails => (~isRunning' /\ currentSession' = NoSession)]_vars

\* ------------------------------------------------------- claims on scroll
RECURSIVE SumOf(_)
SumOf(amounts) ==
    IF amounts = << >> THEN 0 ELSE Head(amounts) + SumOf(Tail(amounts))

\* C32: a scroll without a target element scrolls by the requested signed
\* distance in total: the amounts given to scrollBy add up to d, and for
\* d = 0 scrollBy is not called.
C32_ScrollsByExactDistance ==
    (call.op = "scroll" /\ call.done)
        => /\ SumOf(call.result) = call.distance
           /\ call.distance = 0 => call.result = << >>

\* -------------------------------------- more claims on findElement
\* C33: an element that findElement returns, the virtual browser_back target
\* aside, is attached to the document; the selector current gives the
\* element of the most recent successful resolution (so every successful
\* call leaves its element as the last found one) and fails with
\* element-not-found when there is none.
C33_ReturnedElementsAreAttached ==
    FinderReturned
        => /\ (call.result.ok /\ call.result.el # VirtualEl)
                => call.result.el \in 1..Len(call.dom)
           /\ call.result.ok => call.result.current = call.result.el
           /\ (call.selector = << "current" >> /\ call.current = NoEl
                  /\ ~(call.useCache /\ PostAlias \in DOMAIN call.cache))
                => ~call.result.ok /\ call.result.error = "Element not found"

\* ------------------------------------- more claims on the commands
\* C37: when the background answers START_AUTOMATION with success false, the
\* session manager has no active session for the tab; when it answers
\* STOP_AUTOMATION with success false, the session manager has an active
\* session for the tab exactly if the content script is running.
C37_FailedCommandLeavesRecordsConsistent ==
    (call.op = "sendMessage" /\ call.done /\ ~call.result.success)
        => /\ call.type = "START_AUTOMATION" => ~call.result.session
           /\ call.type = "STOP_AUTOMATION"
                => (call.result.session <=> call.result.isRunning)

\* ----------------------------------------- claims on the storage manager
\* what the record holds after the operation o has run alone on sessions
Alone(o, sessions) == Modified(o, sessions)

\* C38: when two operations among saveSession, deleteSession and
\* cleanupOldSessions run at once, the record stored in the end reflects
\* both: it is what the two leave when they run one after the other, in one
\* of the two orders.
C38_NoLostSessionUpdate ==
    (call.op = "sessions" /\ \A p \in {1, 2} : call.procs[p].pc = "done")
        => call.stored \in
             {Alone(call.procs[2], Alone(call.procs[1], call.initial)),
              Alone(call.procs[1], Alone(call.procs[2], call.initial))}

\* C39: setDefaultSettings, called when no settings are stored (after
\* clearAllData too), stores DEFAULT_SETTINGS under wa_settings; called when
\* settings are stored it leaves them as they are; and no operation changes
\* the object DEFAULT_SETTINGS.
C39_DefaultsWrittenOnceAndNeverModified ==
    call.op = "settings"
        => /\ (call.last = "setDefaultSettings" /\ call.before = {})
                => call.sync = {DEFAULT_SETTINGS}
           /\ (call.last = "setDefaultSettings" /\ call.before # {})
                => call.sync = call.before
           /\ call.last = "clearAllData" => call.sync = {DEFAULT_SETTINGS}
           /\ call.defaults = DEFAULT_SETTINGS

\* --------------------------------------- claims on the website detector
\* C40: detectWebsite serves what the configuration store holds for the
\* domain: null after the configuration was deleted, the new configuration
\* after it was replaced, whatever the detector cached before.
C40_DetectionReflectsStore ==
    (call.op = "websites" /\ call.last = "detectWebsite"
        /\ call.domain \in call.changed)
        => call.result = (IF call.domain \in DOMAIN call.stored
                          THEN call.stored[call.domain] ELSE "null")

====
